---- MODULE Spec2Model ----
(***************************************************************************)
(* A model of wgpu-fun: the geometry primitives of src/collison.rs, the    *)
(* simulation thread and the winit event handler of src/main.rs, and the   *)
(* MeshBuilder of src/renderer/buffer.rs.                                  *)
(*                                                                         *)
(* f32 values are integers that carry the IEEE-754 bit pattern, and the    *)
(* arithmetic on them rounds as f32 arithmetic does.  A Vector2 is the     *)
(* pair <<x, y>>.                                                          *)
(***************************************************************************)
EXTENDS Integers, Sequences, FiniteSets, TLC

\* ------------------------------------------------------------------ f32
\* An f32 is the integer s * (b % 2^31), b its IEEE-754 bit pattern and s the
\* sign: 0 is 0.0 (and -0.0), 1065353216 is 1.0, -1065353216 is -1.0.  Finite
\* values are ordered as their integers are.
F32Inf == 2139095040
F32NaN == 2143289344
Two23 == 8388608
Two24 == 16777216

Abs(x) == IF x < 0 THEN -x ELSE x
Max2(a, b) == IF a >= b THEN a ELSE b
Min2(a, b) == IF a <= b THEN a ELSE b

IsNaN(x) == Abs(x) > F32Inf
IsInf(x) == Abs(x) = F32Inf
Neg(x) == IF IsNaN(x) THEN F32NaN ELSE -x

\* the comparisons of f32: every comparison with NaN is false
F32Lt(x, y) == ~IsNaN(x) /\ ~IsNaN(y) /\ x < y
F32Gt(x, y) == ~IsNaN(x) /\ ~IsNaN(y) /\ x > y
F32Le(x, y) == ~IsNaN(x) /\ ~IsNaN(y) /\ x <= y
F32Ge(x, y) == ~IsNaN(x) /\ ~IsNaN(y) /\ x >= y
F32Eq(x, y) == ~IsNaN(x) /\ ~IsNaN(y) /\ x = y

\* a finite f32 of magnitude a is Mant(a) * 2^Expo(a)
Mant(a) == IF a < Two23 THEN a ELSE Two23 + (a % Two23)
Expo(a) == IF a < Two23 THEN -149 ELSE (a \div Two23) - 150

\* the number of bits of n, 0 <= n < 2^31
BitLen8(n) ==
    IF n < 16
    THEN (IF n < 4 THEN (IF n < 2 THEN n ELSE 2)
          ELSE (IF n < 8 THEN 3 ELSE 4))
    ELSE (IF n < 64 THEN (IF n < 32 THEN 5 ELSE 6)
          ELSE (IF n < 128 THEN 7 ELSE 8))

BitLen(n) ==
    IF n < 65536
    THEN (IF n < 256 THEN BitLen8(n) ELSE 8 + BitLen8(n \div 256))
    ELSE (IF n < Two24 THEN 16 + BitLen8(n \div 65536)
          ELSE 24 + BitLen8(n \div Two24))

\* k, or -k if neg
Signed(neg, k) == IF neg THEN -k ELSE k

\* the f32 of mantissa mant and exponent e: mant * 2^e, infinite if that is
\* beyond the largest f32
Pack(neg, e, mant) ==
    IF e > 104 \/ (mant = Two24 /\ e > 103) THEN Signed(neg, F32Inf)
    ELSE Signed(neg, (e + 149) * Two23 + mant)

\* m cut by sh bits: what is kept and what is cut off
Quot(m, sh) ==
    IF sh <= 0 THEN m * 2^(-sh) ELSE IF sh > 30 THEN 0 ELSE m \div (2^sh)
Rest(m, sh) ==
    IF sh <= 0 THEN 0 ELSE IF sh > 30 THEN m ELSE m % (2^sh)

\* q with ties to even: one more if the part cut off is above half a unit
\* of q, or is half a unit and q is odd or more lies beyond it
RoundEven(q, rem, sh, sticky) ==
    IF /\ 0 < sh /\ sh <= 31
       /\ \/ rem > 2^(sh - 1)
          \/ rem = 2^(sh - 1) /\ (sticky \/ (q % 2) = 1)
    THEN q + 1
    ELSE q

\* m * 2^x rounded to a multiple of 2^e
RoundTo(neg, m, x, sticky, e) ==
    Pack(neg, e, RoundEven(Quot(m, e - x), Rest(m, e - x), e - x, sticky))

\* the f32 nearest to m * 2^x, ties to even, 0 <= m < 2^31; sticky says that
\* the exact value lies above m * 2^x by less than 2^x (m then has more than
\* 25 bits)
RoundF32(neg, m, x, sticky) ==
    IF m = 0 THEN 0
    ELSE RoundTo(neg, m, x, sticky, Max2(x + BitLen(m) - 24, -149))

\* (hi * 2^24 + lo) * 2^x with the s lowest bits cut
RoundWideBy(neg, hi, lo, x, s) ==
    RoundF32(neg, hi * 2^(24 - s) + (lo \div (2^s)), x + s, (lo % (2^s)) # 0)

\* the f32 nearest to (hi * 2^24 + lo) * 2^x, hi and lo below 2^24
RoundWide(neg, hi, lo, x) ==
    RoundWideBy(neg, hi, lo, x, Max2(BitLen(hi) - 6, 0))

\* (top * 2^24 + mid * 2^12 + bot) * 2^e in parts of 24 bits
MulSum(neg, top, mid, bot, e) ==
    RoundWide(neg,
              top + (mid \div 4096)
              + ((bot + (mid % 4096) * 4096) \div Two24),
              (bot + (mid % 4096) * 4096) % Two24, e)

\* the product of the magnitudes a and b under the sign neg, the mantissas
\* taken as h1 * 2^12 + l1 and h2 * 2^12 + l2: top is h1 * h2, mid is
\* h1 * l2 + l1 * h2, bot is l1 * l2
MulMag(neg, a, b) ==
    IF a > F32Inf \/ b > F32Inf THEN F32NaN
    ELSE IF a = F32Inf \/ b = F32Inf
    THEN (IF a = 0 \/ b = 0 THEN F32NaN ELSE Signed(neg, F32Inf))
    ELSE IF a = 0 \/ b = 0 THEN 0
    ELSE MulSum(neg,
                (Mant(a) \div 4096) * (Mant(b) \div 4096),
                (Mant(a) \div 4096) * (Mant(b) % 4096)
                + (Mant(a) % 4096) * (Mant(b) \div 4096),
                (Mant(a) % 4096) * (Mant(b) % 4096),
                Expo(a) + Expo(b))

F32Mul(x, y) == MulMag((x < 0) # (y < 0), Abs(x), Abs(y))

\* a * 2^e of sign n1 plus b * 2^e of sign n2; st says that b was cut
AddParts(n1, n2, a, b, st, e) ==
    RoundF32(IF n1 = n2 \/ st \/ a >= b THEN n1 ELSE n2,
             IF n1 = n2 THEN a + b
             ELSE IF st THEN a - b - 1 ELSE Abs(a - b),
             e, st)

\* the sum of two finite non-zero numbers of magnitudes a and b and signs
\* n1 and n2, a not below b: of the difference d of the exponents at most
\* 6 go to the larger mantissa, shifted up, the rest to the smaller one,
\* shifted down
F32AddOrdered(n1, n2, a, b, d) ==
    AddParts(n1, n2, Mant(a) * 2^Min2(d, 6),
             IF d > 30 THEN 0 ELSE Mant(b) \div (2^(d - Min2(d, 6))),
             IF d > 30 THEN TRUE ELSE (Mant(b) % (2^(d - Min2(d, 6)))) # 0,
             Expo(a) - Min2(d, 6))

\* x + y from the magnitudes a of x and b of y
AddMag(x, y, a, b) ==
    IF a >= F32Inf \/ b >= F32Inf
    THEN (IF a > F32Inf \/ b > F32Inf \/ (a = b /\ x # y) THEN F32NaN
          ELSE IF a = F32Inf THEN x
          ELSE y)
    ELSE IF a = 0 THEN y
    ELSE IF b = 0 THEN x
    ELSE IF a >= b THEN F32AddOrdered(x < 0, y < 0, a, b, Expo(a) - Expo(b))
    ELSE F32AddOrdered(y < 0, x < 0, b, a, Expo(b) - Expo(a))

F32Add(x, y) == AddMag(x, y, Abs(x), Abs(y))

F32Sub(x, y) == F32Add(x, Neg(y))

\* the mantissa of a finite non-zero magnitude shifted up to 24 bits, and
\* the exponent that goes with it
NormMant(a) == Mant(a) * 2^(24 - BitLen(Mant(a)))
NormExpo(a) == Expo(a) - (24 - BitLen(Mant(a)))

\* seven more bits of the quotient of the division by m: <<quotient, rest>>
DivStep(qr, m) == <<qr[1] * 128 + ((qr[2] * 128) \div m), (qr[2] * 128) % m>>

\* m1 / m2 for mantissas of 24 bits, to 28 binary places: <<quotient, rest>>
DivParts(m1, m2) ==
    DivStep(DivStep(DivStep(DivStep(<<m1 \div m2, m1 % m2>>, m2), m2), m2), m2)

F32Div(x, y) ==
    IF IsNaN(x) \/ IsNaN(y) THEN F32NaN
    ELSE IF IsInf(x)
    THEN (IF IsInf(y) THEN F32NaN
          ELSE IF (x < 0) # (y < 0) THEN -F32Inf ELSE F32Inf)
    ELSE IF IsInf(y) THEN 0
    ELSE IF y = 0
    THEN (IF x = 0 THEN F32NaN ELSE IF x < 0 THEN -F32Inf ELSE F32Inf)
    ELSE IF x = 0 THEN 0
    ELSE RoundF32((x < 0) # (y < 0),
                  DivParts(NormMant(Abs(x)), NormMant(Abs(y)))[1],
                  NormExpo(Abs(x)) - NormExpo(Abs(y)) - 28,
                  DivParts(NormMant(Abs(x)), NormMant(Abs(y)))[2] # 0)

\* the floor of the square root of n, 0 < n < 2^26, by Newton's iteration
\* from above
RECURSIVE SqrtIter(_, _)
SqrtIter(n, r) ==
    IF (r + (n \div r)) \div 2 >= r THEN r
    ELSE SqrtIter(n, (r + (n \div r)) \div 2)

\* the root of a radicand continued with zeros, from its part r and what
\* that leaves, rest: steps more bits of it, then rounded at exponent e
RECURSIVE SqrtMore(_, _, _, _)
SqrtMore(r, rest, steps, e) ==
    IF steps = 0 THEN RoundF32(FALSE, r, e, rest # 0)
    ELSE IF 4 * rest >= 4 * r + 1
    THEN SqrtMore(2 * r + 1, 4 * rest - (4 * r + 1), steps - 1, e)
    ELSE SqrtMore(2 * r, 4 * rest, steps - 1, e)

\* the root of m * 2^e, e even, from the floor r of the root of m
SqrtRest(m, e, r) == SqrtMore(r, m - r * r, 14, (e - 28) \div 2)

F32Sqrt(x) ==
    IF IsNaN(x) \/ x < 0 THEN F32NaN
    ELSE IF x = 0 \/ x = F32Inf THEN x
    ELSE IF (NormExpo(x) % 2) = 1
    THEN SqrtRest(2 * NormMant(x), NormExpo(x) - 1,
                  SqrtIter(2 * NormMant(x), 8192))
    ELSE SqrtRest(NormMant(x), NormExpo(x), SqrtIter(NormMant(x), 8192))

\* f32::clamp, f32::max, f32::min
F32Clamp(x, lo, hi) ==
    IF F32Lt(x, lo) THEN lo ELSE IF F32Gt(x, hi) THEN hi ELSE x
F32Max(x, y) == IF IsNaN(x) THEN y ELSE IF IsNaN(y) THEN x ELSE Max2(x, y)
F32Min(x, y) == IF IsNaN(x) THEN y ELSE IF IsNaN(y) THEN x ELSE Min2(x, y)

\* n as f32, |n| < 2^31
F32FromInt(n) == RoundF32(n < 0, Abs(n), 0, FALSE)

\* ------------------------------------------------------------------ f64
\* f32::sin and f32::cos are libm's sinf and cosf, which compute in f64.  An
\* f64 is [neg, exp, mant]: mant is a number of 56 bits in four limbs of 14
\* bits, the lowest first, its three lowest bits 0 (the 53 bits of an f64
\* above them), and the value is mant * 2^exp; the mant of 0.0 is 0.
Limb == 16384
F64Zero == [neg |-> FALSE, exp |-> 0, mant |-> <<0, 0, 0, 0>>]

\* the limb k of the number m, 0 beyond its limbs
At(m, k) == IF k >= 1 /\ k <= Len(m) THEN m[k] ELSE 0

\* the limbs of the sums cols[k] * Limb^(k - 1) from limb k on, with the
\* carry c: one limb more than cols has
RECURSIVE Carry(_, _, _)
Carry(cols, k, c) ==
    IF k > Len(cols) THEN <<c>>
    ELSE <<(cols[k] + c) % Limb>> \o Carry(cols, k + 1, (cols[k] + c) \div Limb)

\* the number of bits of m, of its limbs 1..k
RECURSIVE BigLen(_, _)
BigLen(m, k) ==
    IF k = 0 THEN 0
    ELSE IF m[k] # 0 THEN 14 * (k - 1) + BitLen(m[k])
    ELSE BigLen(m, k - 1)

\* the limb k of m cut by q limbs and r bits, r < 14, and of
\* m * Limb^q * 2^r
LimbRight(m, q, r, k) ==
    (At(m, k + q) \div (2^r)) + (At(m, k + q + 1) % (2^r)) * 2^(14 - r)
LimbLeft(m, q, r, k) ==
    ((At(m, k - q) * 2^r) % Limb) + (At(m, k - q - 1) \div (2^(14 - r)))

\* the four lowest limbs of m cut by d bits, whether what is cut off is not
\* 0, and the thirteen lowest limbs of m * 2^d
ShiftRight(m, d) ==
    <<LimbRight(m, d \div 14, d % 14, 1), LimbRight(m, d \div 14, d % 14, 2),
      LimbRight(m, d \div 14, d % 14, 3), LimbRight(m, d \div 14, d % 14, 4)>>
Lost(m, d) ==
    \E k \in 1..Len(m) :
        \/ k <= d \div 14 /\ m[k] # 0
        \/ k = (d \div 14) + 1 /\ (m[k] % (2^(d % 14))) # 0
Wide(m, d) ==
    <<LimbLeft(m, d \div 14, d % 14, 1), LimbLeft(m, d \div 14, d % 14, 2),
      LimbLeft(m, d \div 14, d % 14, 3), LimbLeft(m, d \div 14, d % 14, 4),
      LimbLeft(m, d \div 14, d % 14, 5), LimbLeft(m, d \div 14, d % 14, 6),
      LimbLeft(m, d \div 14, d % 14, 7), LimbLeft(m, d \div 14, d % 14, 8),
      LimbLeft(m, d \div 14, d % 14, 9), LimbLeft(m, d \div 14, d % 14, 10),
      LimbLeft(m, d \div 14, d % 14, 11), LimbLeft(m, d \div 14, d % 14, 12),
      LimbLeft(m, d \div 14, d % 14, 13)>>

\* the f64 of the 56 bits g, of which the lowest three are beyond the f64.
\* Ties to even: g is rounded up if the three bits are above 4, or they are 4
\* and more lies beyond them (sticky) or the bit above them is 1; the carry
\* may reach a 57th bit
F64RoundCut(neg, g, e, sticky) ==
    IF \/ (g[1] % 8) > 4
       \/ (g[1] % 8) = 4 /\ (sticky \/ ((g[1] \div 8) % 2) = 1)
    THEN (IF Carry(<<g[1] - (g[1] % 8) + 8, g[2], g[3], g[4]>>, 1, 0)[5] = 1
          THEN [neg |-> neg, exp |-> e + 1, mant |-> <<0, 0, 0, 8192>>]
          ELSE [neg |-> neg, exp |-> e,
                mant |-> SubSeq(Carry(<<g[1] - (g[1] % 8) + 8, g[2], g[3],
                                        g[4]>>, 1, 0), 1, 4)])
    ELSE [neg |-> neg, exp |-> e,
          mant |-> <<g[1] - (g[1] % 8), g[2], g[3], g[4]>>]

\* m * 2^e brought to 56 bits: sh bits are cut if sh > 0, -sh appended else
F64RoundAt(neg, m, e, sticky, sh) ==
    IF sh > 0
    THEN F64RoundCut(neg, ShiftRight(m, sh), e + sh, sticky \/ Lost(m, sh))
    ELSE F64RoundCut(neg,
                     <<LimbLeft(m, (-sh) \div 14, (-sh) % 14, 1),
                       LimbLeft(m, (-sh) \div 14, (-sh) % 14, 2),
                       LimbLeft(m, (-sh) \div 14, (-sh) % 14, 3),
                       LimbLeft(m, (-sh) \div 14, (-sh) % 14, 4)>>,
                     e + sh, sticky)

\* the f64 nearest to m * 2^e, ties to even, m of four limbs or more; sticky
\* says that the exact value lies above m * 2^e by less than 2^e
RoundF64(neg, m, e, sticky) ==
    IF BigLen(m, Len(m)) = 0 THEN F64Zero
    ELSE F64RoundAt(neg, m, e, sticky, BigLen(m, Len(m)) - 56)

\* a * b for numbers of four limbs: the sums of the products of the limbs i
\* of a and j of b with i + j = k + 1 are the columns k = 1..7 of the product
BigMul(a, b) ==
    Carry(<<a[1] * b[1],
            a[1] * b[2] + a[2] * b[1],
            a[1] * b[3] + a[2] * b[2] + a[3] * b[1],
            a[1] * b[4] + a[2] * b[3] + a[3] * b[2] + a[4] * b[1],
            a[2] * b[4] + a[3] * b[3] + a[4] * b[2],
            a[3] * b[4] + a[4] * b[3],
            a[4] * b[4]>>, 1, 0)

\* the columns of a + s * b, s of 1 or -1, for numbers of thirteen limbs
Cols(a, b, s) ==
    <<a[1] + s * b[1], a[2] + s * b[2], a[3] + s * b[3], a[4] + s * b[4],
      a[5] + s * b[5], a[6] + s * b[6], a[7] + s * b[7], a[8] + s * b[8],
      a[9] + s * b[9], a[10] + s * b[10], a[11] + s * b[11],
      a[12] + s * b[12], a[13] + s * b[13]>>

\* the f64 nearest to d * 2^e of sign neg, where d is what Carry made of
\* thirteen columns: a carry out of -1 says that the sum of the columns is
\* below 0, and it is Limb^13 less than the limbs of d then
BigRound(neg, d, e) ==
    RoundF64(neg # (d[14] < 0),
             IF d[14] < 0
             THEN SubSeq(Carry(<<-d[1], -d[2], -d[3], -d[4], -d[5], -d[6],
                                 -d[7], -d[8], -d[9], -d[10], -d[11], -d[12],
                                 -d[13]>>, 1, 0), 1, 13)
             ELSE d,
             e, FALSE)

\* x * y + z, rounded once: the fused multiply-add (vfmadd, vfnmadd) of the
\* sinf and cosf that libm selects where the processor has it.  The product
\* of the mants at the exponent x.exp + y.exp and z.mant at z.exp are brought
\* to the lower of the two exponents and added as their signs say; one that
\* lies wholly below the bits of the other, two more bits counted (the
\* exponents differ by 114 or more, or by -58 or less), is taken as 1 there,
\* which rounds alike
F64Fma(x, y, z) ==
    IF x.mant = F64Zero.mant \/ y.mant = F64Zero.mant THEN z
    ELSE IF z.mant = F64Zero.mant
    THEN RoundF64(x.neg # y.neg, BigMul(x.mant, y.mant), x.exp + y.exp, FALSE)
    ELSE BigRound(z.neg,
                  Carry(Cols(Wide(IF z.exp - (x.exp + y.exp) <= -58 THEN <<1>>
                                  ELSE z.mant,
                                  IF z.exp - (x.exp + y.exp) >= 114 THEN 2
                                  ELSE IF z.exp - (x.exp + y.exp) >= 0
                                  THEN z.exp - (x.exp + y.exp)
                                  ELSE 0),
                             Wide(IF z.exp - (x.exp + y.exp) >= 114 THEN <<1>>
                                  ELSE BigMul(x.mant, y.mant),
                                  IF z.exp - (x.exp + y.exp) <= -58 THEN 2
                                  ELSE IF z.exp - (x.exp + y.exp) < 0
                                  THEN (x.exp + y.exp) - z.exp
                                  ELSE 0),
                             IF (x.neg # y.neg) # z.neg THEN -1 ELSE 1),
                        1, 0),
                  IF z.exp - (x.exp + y.exp) >= 114 THEN z.exp - 2
                  ELSE IF z.exp - (x.exp + y.exp) <= -58
                  THEN x.exp + y.exp - 2
                  ELSE IF z.exp - (x.exp + y.exp) >= 0 THEN x.exp + y.exp
                  ELSE z.exp)

\* x * y
F64Mul(x, y) ==
    IF x.mant = F64Zero.mant \/ y.mant = F64Zero.mant THEN F64Zero
    ELSE RoundF64(x.neg # y.neg, BigMul(x.mant, y.mant), x.exp + y.exp, FALSE)

\* y as f64, for a finite f32 y
F64FromF32(y) ==
    IF y = 0 THEN F64Zero
    ELSE [neg |-> y < 0, exp |-> NormExpo(Abs(y)) - 32,
          mant |-> <<0, 0, (NormMant(Abs(y)) * 16) % Limb,
                     (NormMant(Abs(y)) * 16) \div Limb>>]

\* (float) x
F64ToF32(x) ==
    RoundF32(x.neg, x.mant[4] * 65536 + x.mant[3] * 4 + (x.mant[2] \div 4096),
             x.exp + 26, (x.mant[2] % 4096) # 0 \/ x.mant[1] # 0)

\* the limbs of an integer below 2^31 as a number
BigToInt(m) == m[1] + m[2] * Limb + m[3] * Limb * Limb

\* (int32_t) x for |x| < 2^31: towards 0
F64ToInt(x) ==
    IF x.exp >= 0
    THEN Signed(x.neg,
                BigToInt(<<LimbLeft(x.mant, x.exp \div 14, x.exp % 14, 1),
                           LimbLeft(x.mant, x.exp \div 14, x.exp % 14, 2),
                           LimbLeft(x.mant, x.exp \div 14, x.exp % 14, 3)>>))
    ELSE Signed(x.neg, BigToInt(ShiftRight(x.mant, -x.exp)))

\* ------------------------------------------------------------------ sinf, cosf
\* glibc's __sincosf_table: hpi_inv, hpi and the coefficients of [0] and of
\* [1], where those of cosine are negated
SincosTable ==
    <<[hpi_inv |-> [neg |-> FALSE, exp |-> -32,
                  mant |-> <<1048, 14649, 6198, 10430>>],
       hpi |-> [neg |-> FALSE, exp |-> -55,
              mant |-> <<10432, 2181, 15786, 12867>>],
       c0 |-> [neg |-> FALSE, exp |-> -55,
             mant |-> <<0, 0, 0, 8192>>],
       c1 |-> [neg |-> TRUE, exp |-> -57,
             mant |-> <<4320, 8588, 16382, 16383>>],
       c2 |-> [neg |-> FALSE, exp |-> -60,
             mant |-> <<14536, 8401, 10736, 10922>>],
       c3 |-> [neg |-> TRUE, exp |-> -65,
             mant |-> <<11496, 4934, 1012, 11649>>],
       c4 |-> [neg |-> FALSE, exp |-> -71,
             mant |-> <<1560, 3967, 8577, 13094>>],
       s1 |-> [neg |-> TRUE, exp |-> -58,
             mant |-> <<12312, 12980, 10796, 10922>>],
       s2 |-> [neg |-> FALSE, exp |-> -62,
             mant |-> <<7712, 9313, 15106, 8736>>],
       s3 |-> [neg |-> TRUE, exp |-> -68,
             mant |-> <<14624, 11929, 13723, 13097>>]],
      [hpi_inv |-> [neg |-> FALSE, exp |-> -32,
                  mant |-> <<1048, 14649, 6198, 10430>>],
       hpi |-> [neg |-> FALSE, exp |-> -55,
              mant |-> <<10432, 2181, 15786, 12867>>],
       c0 |-> [neg |-> TRUE, exp |-> -55,
             mant |-> <<0, 0, 0, 8192>>],
       c1 |-> [neg |-> FALSE, exp |-> -57,
             mant |-> <<4320, 8588, 16382, 16383>>],
       c2 |-> [neg |-> TRUE, exp |-> -60,
             mant |-> <<14536, 8401, 10736, 10922>>],
       c3 |-> [neg |-> FALSE, exp |-> -65,
             mant |-> <<11496, 4934, 1012, 11649>>],
       c4 |-> [neg |-> TRUE, exp |-> -71,
             mant |-> <<1560, 3967, 8577, 13094>>],
       s1 |-> [neg |-> TRUE, exp |-> -58,
             mant |-> <<12312, 12980, 10796, 10922>>],
       s2 |-> [neg |-> FALSE, exp |-> -62,
             mant |-> <<7712, 9313, 15106, 8736>>],
       s3 |-> [neg |-> TRUE, exp |-> -68,
             mant |-> <<14624, 11929, 13723, 13097>>]]>>

\* s1 = fma(x2, s3, s2), x7 = x3 * x2, s = fma(x3, s1, x), fma(s1, x7, s)
SinTail(x, x2, x3, p) ==
    F64ToF32(F64Fma(F64Fma(x2, p.s3, p.s2), F64Mul(x3, x2),
                    F64Fma(x3, p.s1, x)))

\* c2 = fma(x2, c4, c3), c1 = fma(x2, c1, c0), x6 = x4 * x2,
\* c = fma(x4, c2, c1), fma(c2, x6, c)
CosTail(x2, x4, p) ==
    F64ToF32(F64Fma(F64Fma(x2, p.c4, p.c3), F64Mul(x4, x2),
                    F64Fma(x4, p.c2, F64Fma(x2, p.c1, p.c0))))

\* the polynomial of sine for even n, of cosine for odd n
sinf_poly(x, x2, p, n) ==
    IF n % 2 = 0 THEN SinTail(x, x2, F64Mul(x, x2), p)
    ELSE CosTail(x2, F64Mul(x2, x2), p)

\* reduce_fast: n = ((int32_t) (x * hpi_inv) + 0x800000) >> 24, the quarter
\* turn nearest to x, and x - n * hpi in one fused step
ReduceN(x) ==
    (F64ToInt(F64Mul(x, SincosTable[1].hpi_inv)) + 8388608) \div 16777216
reduce_fast(x, n) ==
    F64Fma(RoundF64(n > 0, <<Abs(n), 0, 0, 0>>, 0, FALSE),
           SincosTable[1].hpi, x)

\* __inv_pio4: the bits of 4 / pi, 32 of them from every eighth bit on, each
\* entry a number of four limbs
InvPio4 ==
    <<<<162, 0, 0, 0>>, <<8953, 2, 0, 0>>,
      <<14723, 651, 0, 0>>, <<878, 3046, 10, 0>>,
      <<11854, 9741, 15, 0>>, <<3652, 3513, 8, 0>>,
      <<1045, 14649, 6, 0>>, <<5417, 14608, 4, 0>>,
      <<10748, 4180, 4, 0>>, <<15399, 5287, 1, 0>>,
      <<10071, 10224, 2, 0>>, <<6097, 12445, 15, 0>>,
      <<4597, 7519, 2, 0>>, <<13620, 8007, 5, 0>>,
      <<13533, 2004, 13, 0>>, <<7616, 5331, 15, 0>>,
      <<219, 4983, 3, 0>>, <<7010, 14083, 13, 0>>,
      <<8853, 877, 12, 0>>, <<5529, 11658, 13, 0>>,
      <<6460, 2646, 6, 0>>, <<15427, 5732, 9, 0>>,
      <<912, 9457, 9, 0>>, <<4161, 12558, 3, 0>>>>

\* the low 64 bits, in limbs, of res0 * 2^32 + res1 + (res2 >> 32), where the
\* res are the products of m and the entries 0, 4 and 8 of the table from arr
\* on
ReduceLargeSum(m, arr) ==
    Carry(Cols(Carry(Cols(Wide(BigMul(m, InvPio4[arr + 1]), 32),
                          Wide(BigMul(m, InvPio4[arr + 5]), 0), 1), 1, 0),
               Wide(ShiftRight(BigMul(m, InvPio4[arr + 9]), 32), 0), 1), 1, 0)

\* n = (res0 + (1 << 61)) >> 62 of the sum t in 64 bits, and x, the signed
\* rest res0 - (n << 62) as f64 times pi63 = 0x1.921FB54442D18p-62; the bits
\* 56 to 63 of t are t[5] % 256, and 1 << 61 is 32 there
ReduceLargeOf(t) ==
    [n |-> (((t[5] % 256) + 32) % 256) \div 64,
     x |-> F64Mul(RoundF64(((t[5] % 256) + 32) % 64 < 32,
                           IF ((t[5] % 256) + 32) % 64 >= 32
                           THEN <<t[1], t[2], t[3], t[4],
                                  (((t[5] % 256) + 32) % 64) - 32>>
                           ELSE Carry(<<-t[1], -t[2], -t[3], -t[4],
                                        32 - (((t[5] % 256) + 32) % 64)>>,
                                      1, 0),
                           0, FALSE),
                  [neg |-> FALSE, exp |-> -117,
                   mant |-> <<10432, 2181, 15786, 12867>>])]

\* reduce_large of the bits xi of |y|: m = ((xi & 0x7fffff) | 0x800000) <<
\* ((xi >> 23) & 7) and arr = (xi >> 26) & 15
reduce_large(xi) ==
    ReduceLargeOf(
        ReduceLargeSum(
            <<(((xi % 8388608) + 8388608) * 2^((xi \div 8388608) % 8)) % Limb,
              ((((xi % 8388608) + 8388608) * 2^((xi \div 8388608) % 8))
               \div Limb) % Limb,
              (((xi % 8388608) + 8388608) * 2^((xi \div 8388608) % 8))
              \div (Limb * Limb), 0>>,
            (xi \div 67108864) % 16))

\* x * s with s = sign[n & 3] of 1, -1, -1, 1, the table [1] if n & 2, and the
\* polynomial of the parity of r.n + k, where r is what the reduction gave
\* and n is r.n + sign; sign is 0 after reduce_fast and the sign bit of y
\* after reduce_large
ReducedPoly(r, sign, k) ==
    sinf_poly([r.x EXCEPT !.neg = ((r.n + sign) % 4 = 1
                                   \/ (r.n + sign) % 4 = 2) # r.x.neg],
              F64Mul(r.x, r.x),
              IF (r.n + sign) % 4 >= 2 THEN SincosTable[2] ELSE SincosTable[1],
              r.n + k)

\* abstop12: the sign cut off and the twelve bits below it
Abstop12(y) == Abs(y) \div 1048576

\* abstop12 of 0x1p-12f, of pio4 (the f32s below 0.75), of 120.0f and of
\* INFINITY
Top12Tiny == 920
Top12Pio4 == 1012
Top12Large == 1071
Top12Inf == 2040

\* sinf: y itself below 0x1p-12, the polynomial of sine below pio4, after
\* reduce_fast below 120.0 and after reduce_large from there on; NaN for
\* INFINITY and NaN
F32Sin(y) ==
    IF Abstop12(y) >= Top12Inf THEN F32NaN
    ELSE IF Abstop12(y) < Top12Tiny THEN y
    ELSE IF Abstop12(y) < Top12Pio4
    THEN sinf_poly(F64FromF32(y), F64Mul(F64FromF32(y), F64FromF32(y)),
                   SincosTable[1], 0)
    ELSE ReducedPoly(IF Abstop12(y) < Top12Large
                     THEN [n |-> ReduceN(F64FromF32(y)),
                           x |-> reduce_fast(F64FromF32(y),
                                             ReduceN(F64FromF32(y)))]
                     ELSE reduce_large(Abs(y)),
                     IF Abstop12(y) >= Top12Large /\ y < 0 THEN 1 ELSE 0, 0)

\* cosf
F32Cos(y) ==
    IF Abstop12(y) >= Top12Inf THEN F32NaN
    ELSE IF Abstop12(y) < Top12Tiny THEN 1065353216
    ELSE IF Abstop12(y) < Top12Pio4
    THEN sinf_poly(F64FromF32(y), F64Mul(F64FromF32(y), F64FromF32(y)),
                   SincosTable[1], 1)
    ELSE ReducedPoly(IF Abstop12(y) < Top12Large
                     THEN [n |-> ReduceN(F64FromF32(y)),
                           x |-> reduce_fast(F64FromF32(y),
                                             ReduceN(F64FromF32(y)))]
                     ELSE reduce_large(Abs(y)),
                     IF Abstop12(y) >= Top12Large /\ y < 0 THEN 1 ELSE 0, 1)

\* the f32 literals of the program
Zero == 0
One == 1065353216
Two == 1073741824
Half == 1056964608
Ten == 1092616192

\* Vector2 arithmetic (cgmath)
Add(u, v) == <<F32Add(u[1], v[1]), F32Add(u[2], v[2])>>
Sub(u, v) == <<F32Sub(u[1], v[1]), F32Sub(u[2], v[2])>>
Scl(u, k) == <<F32Mul(u[1], k), F32Mul(u[2], k)>>
Dot(u, v) == F32Add(F32Mul(u[1], v[1]), F32Mul(u[2], v[2]))
Magnitude(v) == F32Sqrt(Dot(v, v))

\* InnerSpace::normalize: v * (1 / |v|); of the zero vector it is (NaN, NaN)
Normalize(v) == Scl(v, F32Div(One, Magnitude(v)))

\* ------------------------------------------------------------------ collison.rs
\* p.y against the y at p.x of the line of slope m through a:
\* c = a.y - m * a.x, ab_y = m * p.x + c, p.y > ab_y
AboveLine(p, a, m) ==
    F32Gt(p[2], F32Add(F32Mul(m, p[1]), F32Sub(a[2], F32Mul(m, a[1]))))

\* is_right with the vertical special case removed: m = dy / 0 is infinite
\* or NaN
is_right_no_vertical(p, a, b) ==
    IF F32Eq(a[2], b[2]) THEN F32Gt(p[2], a[2])
    ELSE AboveLine(p, a, F32Div(F32Sub(b[2], a[2]), F32Sub(b[1], a[1])))

\* is_right with the division by dx multiplied out and the sign of dx
\* forgotten
is_right_unsigned(p, a, b) ==
    IF F32Eq(a[1], b[1]) THEN F32Gt(p[1], a[1])
    ELSE IF F32Eq(a[2], b[2]) THEN F32Gt(p[2], a[2])
    ELSE F32Gt(F32Mul(F32Sub(p[2], a[2]), F32Sub(b[1], a[1])),
               F32Mul(F32Sub(b[2], a[2]), F32Sub(p[1], a[1])))

\* is_right(p, a, b): p.y against the line's y at p.x, with m = dy / dx
is_right(p, a, b) ==
    IF F32Eq(a[1], b[1]) THEN F32Gt(p[1], a[1])
    ELSE IF F32Eq(a[2], b[2]) THEN F32Gt(p[2], a[2])
    ELSE AboveLine(p, a, F32Div(F32Sub(b[2], a[2]), F32Sub(b[1], a[1])))

\* ^ of two bools is #
triangle_contains(p, v1, v2, v3) ==
    LET s1 == is_right(p, v1, v2) # is_right(v3, v1, v2)
        s2 == is_right(p, v1, v3) # is_right(v2, v1, v3)
        s3 == is_right(p, v2, v3) # is_right(v1, v2, v3)
    IN ~s1 /\ ~s2 /\ ~s3

\* circle_intersects_line_segment without the clamp of the projection to
\* the segment: the closest point of the infinite line
circle_intersects_line_unclamped(c, r, a, b) ==
    LET line_norm == Normalize(Sub(b, a))
        t == Dot(Sub(c, a), line_norm)
        closest_point == Add(a, Scl(line_norm, t))
    IN F32Le(Magnitude(Sub(c, closest_point)), r)

\* the closest point of the segment a b for the projection parameter t
ClosestAt(a, b, line_norm, t) ==
    IF F32Lt(t, Zero) THEN a
    ELSE IF F32Gt(t, Magnitude(Sub(b, a))) THEN b
    ELSE Add(a, Scl(line_norm, t))

\* t = ac.dot(line_norm)
ClosestPoint(c, a, b, line_norm) ==
    ClosestAt(a, b, line_norm, Dot(Sub(c, a), line_norm))

\* circle_intersects_line_segment(c, r, a, b).  When a = b line_norm is
\* (NaN, NaN): t is NaN, both comparisons of t are false, the closest point
\* and the distance are NaN and NaN <= r is false.
circle_intersects_line_segment(c, r, a, b) ==
    F32Le(Magnitude(Sub(c, ClosestPoint(c, a, b, Normalize(Sub(b, a))))), r)

circle_intersects_triangle(c, r, v1, v2, v3) ==
    \/ triangle_contains(c, v1, v2, v3)
    \/ circle_intersects_line_segment(c, r, v1, v2)
    \/ circle_intersects_line_segment(c, r, v1, v3)
    \/ circle_intersects_line_segment(c, r, v2, v3)

\* ------------------------------------------------------------------ buffer.rs
\* a Vertex is [position |-> <<x, y>>, color |-> <<r, g, b>>]; a MeshBuilder
\* is [vertices |-> sequence of Vertex, indices |-> sequence of u16]
U16 == 65536

MeshBuilderDefault == [vertices |-> <<>>, indices |-> <<>>]

\* MeshBuilder::push without the rebase of the indices
MeshPushNoRebase(mesh, vertices, indices) ==
    [vertices |-> mesh.vertices \o vertices,
     indices |-> mesh.indices \o indices]

\* current_vertex + i leaves u16: a build with overflow checks panics
\* there, a build without them wraps
MeshPushOverflows(mesh, indices) ==
    \E k \in 1..Len(indices) : (Len(mesh.vertices) % U16) + indices[k] >= U16

\* MeshBuilder::push, the additions wrapping around
MeshPush(mesh, vertices, indices) ==
    LET current_vertex == Len(mesh.vertices) % U16
    IN [vertices |-> mesh.vertices \o vertices,
        indices |-> mesh.indices \o
            [k \in 1..Len(indices) |-> (current_vertex + indices[k]) % U16]]

\* ------------------------------------------------------------------ main.rs: entities
Pressed == "Pressed"
Released == "Released"

LoseZoneHeight == 1036831949
LoseZoneColor == <<One, 1058642330, Zero>>
White == <<One, One, One>>
QuadIndices == <<0, 1, 2, 0, 2, 3>>

LoseZoneVertices ==
    [k \in 1..4 |->
        [position |-> << <<-Ten, -One>>,
                         <<Ten, -One>>,
                         <<Ten, F32Add(-One, LoseZoneHeight)>>,
                         <<-Ten, F32Add(-One, LoseZoneHeight)>> >>[k],
         color |-> LoseZoneColor]]

LoseZonePush(mesh) == MeshPush(mesh, LoseZoneVertices, QuadIndices)

\* the test against the bottom of the zone, its height left out
LoseZoneContainsNoHeight(point) == F32Lt(point[2], -One)

\* a zone two units tall, which holds the spawn point
LoseZoneContainsTall(point) == F32Lt(point[2], One)

LoseZoneContains(point) == F32Lt(point[2], F32Add(-One, LoseZoneHeight))

BallSegments == 20
BallRadius == 1028443341
Tau == 1086918619

\* the first map of push: the sine and the cosine of
\* i as f32 / SEGMENTS as f32 * TAU, times RADIUS, for i = 0..SEGMENTS
CirclePoints ==
    [k \in 1..(BallSegments + 1) |->
        <<F32Mul(F32Sin(F32Mul(F32Div(F32FromInt(k - 1),
                                      F32FromInt(BallSegments)), Tau)),
                 BallRadius),
          F32Mul(F32Cos(F32Mul(F32Div(F32FromInt(k - 1),
                                      F32FromInt(BallSegments)), Tau)),
                 BallRadius)>>]

\* the centre, then the points of the circle moved to the position
BallVertices(ball) ==
    <<[position |-> ball.position, color |-> White]>> \o
    [k \in 1..(BallSegments + 1) |->
        [position |-> <<F32Add(CirclePoints[k][1], ball.position[1]),
                        F32Add(CirclePoints[k][2], ball.position[2])>>,
         color |-> White]]

BallIndices ==
    LET n == BallSegments + 2
    IN [k \in 1..(3 * BallSegments) |->
           LET i == (k + 2) \div 3
           IN IF k % 3 = 1 THEN 0
              ELSE IF k % 3 = 2 THEN ((i + 1) % U16) % n
              ELSE i % U16]

BallPush(ball, mesh) == MeshPush(mesh, BallVertices(ball), BallIndices)

PaddleWidth == 1053609165
PaddleHeight == 1045220557
PaddleY == -1060320051
AngleMultiplier == 1053364187
NormalAngleMultiplier == F32Div(AngleMultiplier, Two)

\* the corners [-WIDTH / 2., -HEIGHT / 2.], ... before the rotation
PaddleCorners ==
    << <<-F32Div(PaddleWidth, Two), -F32Div(PaddleHeight, Two)>>,
       <<F32Div(PaddleWidth, Two), -F32Div(PaddleHeight, Two)>>,
       <<F32Div(PaddleWidth, Two), F32Div(PaddleHeight, Two)>>,
       <<-F32Div(PaddleWidth, Two), F32Div(PaddleHeight, Two)>> >>

\* every corner (x, y) turned by the angle of sine s and cosine c and moved
\* to the paddle at px: [x * c - y * s, x * s + y * c], then
\* [px + vert_x, y + Y]
PaddlePointsBy(px, s, c) ==
    [k \in 1..4 |->
        <<F32Add(px, F32Sub(F32Mul(PaddleCorners[k][1], c),
                            F32Mul(PaddleCorners[k][2], s))),
          F32Add(F32Add(F32Mul(PaddleCorners[k][1], s),
                        F32Mul(PaddleCorners[k][2], c)), PaddleY)>>]

PaddlePoints(paddle) ==
    PaddlePointsBy(paddle.x,
                   F32Sin(F32Mul(paddle.velocity, AngleMultiplier)),
                   F32Cos(F32Mul(paddle.velocity, AngleMultiplier)))

PaddleVertices(pts) ==
    [k \in 1..4 |-> [position |-> pts[k], color |-> White]]

PaddlePush(paddle, mesh) ==
    MeshPush(mesh, PaddleVertices(PaddlePoints(paddle)), QuadIndices)

\* the two triangles a b c and a c d of the points <<a, b, c, d>>
PointsContain(pts, position) ==
    \/ circle_intersects_triangle(position, BallRadius,
                                  pts[1], pts[2], pts[3])
    \/ circle_intersects_triangle(position, BallRadius,
                                  pts[1], pts[3], pts[4])

PaddleContains(paddle, ball) ==
    PointsContain(PaddlePoints(paddle), ball.position)

\* Basis2::from_angle(angle).rotate_vector(unit_y): the rows (c, -s) and
\* (s, c) of the rotation, each times (0, 1)
RotateUnitYBy(s, c) ==
    <<Dot(<<c, Neg(s)>>, <<Zero, One>>), Dot(<<s, c>>, <<Zero, One>>)>>

RotateUnitY(angle) == RotateUnitYBy(F32Sin(angle), F32Cos(angle))

PaddleNormal(paddle) ==
    LET velocity == RotateUnitY(F32Mul(paddle.velocity, NormalAngleMultiplier))
        position == RotateUnitY(F32Mul(paddle.x, NormalAngleMultiplier))
    IN Add(Scl(velocity, Half), Scl(position, Half))

\* ------------------------------------------------------------------ main.rs: one tick
\* an Event is [type |-> "Left" | "Right" | "Reset", state |-> ElementState]
ResetEvent == [type |-> "Reset", state |-> Released]

Spawn == <<Zero, 1060320051>>
TrackBound == 1085276160
SteerStep == 1028443341
SteerDivisor == 1101004800
Decay == 1064514355
BallSpeedBound == 1036831949
GravityFactor == 1008981770
GravityBand == 1056964608
GravityRest == 1036831949
JitterFactor == 1008981770
CameraBound == 1084227584
CameraWeight == 1092616192
CameraDivisor == 1093664768

\* the match arms of the event drain
EventControls(controls, e) ==
    IF e.type = "Left" THEN [controls EXCEPT !.left = e.state]
    ELSE IF e.type = "Right" THEN [controls EXCEPT !.right = e.state]
    ELSE controls

\* the Reset arm left out
EventBallKeep(ball, e) == ball

\* a Reset that also brings the ball to rest
EventBallRest(ball, e) ==
    IF e.type = "Reset" THEN [position |-> Spawn, velocity |-> <<Zero, Zero>>]
    ELSE ball

EventBall(ball, e) ==
    IF e.type = "Reset" THEN [ball EXCEPT !.position = Spawn] ELSE ball

\* the whole backlog q applied in order
RECURSIVE DrainControls(_, _)
DrainControls(controls, q) ==
    IF q = <<>> THEN controls
    ELSE DrainControls(EventControls(controls, Head(q)), Tail(q))

RECURSIVE DrainBall(_, _)
DrainBall(ball, q) ==
    IF q = <<>> THEN ball ELSE DrainBall(EventBall(ball, Head(q)), Tail(q))

\* the steering match without the floor and the cap of the velocity
SteeringUncapped(controls, velocity) ==
    IF controls.left = Pressed /\ controls.right = Released
    THEN F32Sub(velocity, SteerStep)
    ELSE IF controls.left = Released /\ controls.right = Pressed
    THEN F32Add(velocity, SteerStep)
    ELSE F32Mul(velocity, Decay)

\* the steering match on Controls
Steering(controls, velocity) ==
    IF controls.left = Pressed /\ controls.right = Released
    THEN F32Max(F32Sub(velocity, SteerStep), -One)
    ELSE IF controls.left = Released /\ controls.right = Pressed
    THEN F32Min(F32Add(velocity, SteerStep), One)
    ELSE F32Mul(velocity, Decay)

\* the position update without its clamp
PaddleMoveUnclamped(x, velocity) == F32Add(x, F32Div(velocity, SteerDivisor))

\* paddle.x = (paddle.x + paddle.velocity / 20.).clamp(-5.5, 5.5)
PaddleMove(x, velocity) ==
    F32Clamp(F32Add(x, F32Div(velocity, SteerDivisor)),
             -TrackBound, TrackBound)

\* a gravity that acts only on a velocity inside the band [-0.5, -0.1]
GravityInBandOnly(vy) ==
    IF F32Le(-GravityBand, vy) /\ F32Le(vy, -GravityRest)
    THEN F32Add(vy, F32Mul(vy, GravityFactor))
    ELSE vy

\* ball.velocity.y + ball.velocity.y.clamp(-0.5, -0.1) * 0.01
Gravity(vy) ==
    F32Add(vy, F32Mul(F32Clamp(vy, -GravityBand, -GravityRest),
                      GravityFactor))

\* velocity.x += ((rng.gen::<f32>() * 2.) - 0.5) * 0.01 for a draw g of
\* [0, 1)
Jolt(v, g) ==
    <<F32Add(v[1], F32Mul(F32Sub(F32Mul(g, Two), Half), JitterFactor)), v[2]>>

Collide(paddle, ball, hit, g) ==
    IF hit THEN Jolt(Add(ball.velocity, PaddleNormal(paddle)), g)
    ELSE ball.velocity

\* the damping without the clamp
DampUnclamped(v) == <<F32Mul(v[1], Decay), F32Mul(v[2], Decay)>>

\* the damping and the clamp of the velocity
Damp(v) ==
    <<F32Clamp(F32Mul(v[1], Decay), -BallSpeedBound, BallSpeedBound),
      F32Clamp(F32Mul(v[2], Decay), -BallSpeedBound, BallSpeedBound)>>

\* ball.position += ball.velocity, then the clamp of position.x
Integrate(position, v) ==
    <<F32Clamp(F32Add(position[1], v[1]), -TrackBound, TrackBound),
      F32Add(position[2], v[2])>>

\* steering, position update, gravity, collision, damping and integration
AdvancePaddle(controls, paddle) ==
    LET v == Steering(controls, paddle.velocity)
    IN [x |-> PaddleMove(paddle.x, v), velocity |-> v]

\* the ball after the gravity step
Fallen(ball) == [ball EXCEPT !.velocity[2] = Gravity(ball.velocity[2])]

\* g is the draw of the collision branch
BallAt(position, v) ==
    [position |-> Integrate(position, v), velocity |-> v]

AdvanceBall(paddle, ball, hit, g) ==
    BallAt(ball.position, Damp(Collide(paddle, Fallen(ball), hit, g)))

\* the scene rebuild: a new builder, then lose zone, paddle and ball
BuildScene(paddle, ball) ==
    BallPush(ball, PaddlePush(paddle, LoseZonePush(MeshBuilderDefault)))

\* one of the three pushes of the rebuild leaves u16 with an index: that
\* of the lose zone on the new builder, of the paddle on zone (the builder
\* with the lose zone) or of the ball on pushed (zone with the paddle)
SceneOverflows(zone, pushed) ==
    \/ MeshPushOverflows(MeshBuilderDefault, QuadIndices)
    \/ MeshPushOverflows(zone, QuadIndices)
    \/ MeshPushOverflows(pushed, BallIndices)

\* the camera update without its clamp
CameraUpdateUnclamped(camera, x) ==
    F32Div(F32Add(F32Mul(camera, CameraWeight), x), CameraDivisor)

\* ((*camera_x * 10. + paddle.x) / 11.).clamp(-5.0, 5.0)
CameraUpdate(camera, x) ==
    F32Clamp(F32Div(F32Add(F32Mul(camera, CameraWeight), x), CameraDivisor),
             -CameraBound, CameraBound)

\* ------------------------------------------------------------------ state
VARIABLES
    controls,       \* Controls of the simulation thread
    paddle,         \* Paddle
    ball,           \* Ball
    queue,          \* the crossbeam channel: events sent and not yet received
    meshCell,       \* Arc<Mutex<MeshBuilder>>: the value
    cameraX,        \* Arc<Mutex<f32>>: the value
    meshLock,       \* holder of the mesh mutex: "free", "sim" or "render"
    cameraLock,     \* holder of the camera mutex
    spc,            \* simulation thread: position in the loop body
    built,          \* simulation thread: the builder of the scene rebuild
    tick,           \* completed iterations of the simulation loop
    rpc,            \* event thread: position in the RedrawRequested handler
    rmesh,          \* event thread: the clone of the mesh cell
    rcam,           \* event thread: the camera offset passed to render
    result,         \* event thread: what renderer.render returned
    handled,        \* event thread: what the last match on the result did
    redraw,         \* a redraw requested by window.request_redraw is pending
    process,        \* "running" or "exited"
    budget,         \* ticks and key events the run may still take
    sent,           \* history: the number of events ever sent
    received,       \* history: the number of events ever received
    latest,         \* history: the states of the last Left and Right sent
    drain,          \* history: the drain of the current tick
    snapshots,      \* history: the entity state each scene rebuild read
                    \* and the camera offset its tick stores
    geo             \* inputs and output of a geometry primitive

simVars == <<controls, paddle, ball, spc, built, tick>>
sharedVars == <<queue, meshCell, cameraX, meshLock, cameraLock>>
renderVars == <<rpc, rmesh, rcam, result, handled>>
historyVars == <<sent, received, latest, drain, snapshots>>
vars == <<controls, paddle, ball, queue, meshCell, cameraX, meshLock,
          cameraLock, spc, built, tick, rpc, rmesh, rcam, result, handled,
          redraw, process, budget, sent, received, latest, drain, snapshots,
          geo>>

gameVars == <<controls, paddle, ball, queue, meshCell, cameraX, meshLock,
              cameraLock, spc, built, tick, rpc, rmesh, rcam, result,
              handled, redraw, process, budget, sent, received, latest,
              drain, snapshots>>

\* bounds of the runs
MaxTicks == 2
MaxKeys == 2
LongTicks == 125
LongKeys == 2
KeyPeriod == 104
DrawSteps == 2

ElementStates == {Pressed, Released}
Keys == {"ArrowRight", "ArrowLeft", "Space", "Escape", "Other"}
RenderResults == {"Ok", "Lost", "OutOfMemory", "Other"}
\* rng.gen::<f32>() draws one of the 2^24 multiples of 2^-24 in [0, 1):
\* k * 2^-24 for 24 random bits k.  The draws looked at: DrawSteps of them
\* evenly spaced from 0 on, and the two next to the ends of the range,
\* 2^-24 and 1 - 2^-24
RngValues ==
    {RoundF32(FALSE, k, -24, FALSE) :
        k \in {(j * Two24) \div DrawSteps : j \in 0..(DrawSteps - 1)}
              \cup {1, Two24 - 1}}

\* rng.gen() is called in the collision branch only
Draws(hit) == IF hit THEN RngValues ELSE {Zero}

NoDrain == [started |-> FALSE, start |-> 0, reset |-> FALSE, last |-> FALSE]
NoGeo == [mode |-> "none", p |-> <<0, 0>>, v1 |-> <<0, 0>>, v2 |-> <<0, 0>>,
          v3 |-> <<0, 0>>, r |-> 0, done |-> FALSE, out |-> FALSE]

\* the state main() builds before it spawns the simulation thread
InitGame ==
    /\ controls = [left |-> Released, right |-> Released]
    /\ paddle = [x |-> 0, velocity |-> 0]
    /\ ball = [position |-> Spawn, velocity |-> <<0, 0>>]
    /\ queue = <<>>
    /\ meshCell = MeshBuilderDefault
    /\ cameraX = 0
    /\ meshLock = "free"
    /\ cameraLock = "free"
    /\ spc = "drain"
    /\ built = MeshBuilderDefault
    /\ tick = 0
    /\ rpc = "idle"
    /\ rmesh = MeshBuilderDefault
    /\ rcam = 0
    /\ result = "none"
    /\ handled = "none"
    /\ redraw = FALSE
    /\ process = "running"
    /\ sent = 0
    /\ received = 0
    /\ latest = [left |-> Released, right |-> Released]
    /\ drain = NoDrain
    /\ snapshots = {}

Init ==
    /\ InitGame
    /\ budget = [ticks |-> MaxTicks, keys |-> MaxKeys]
    /\ geo = NoGeo

\* ------------------------------------------------------------------ simulation thread
\* the drain of this tick begins with the first call of try_iter's next()
DrainBegun == IF drain.started THEN drain
              ELSE [started |-> TRUE, start |-> sent,
                    reset |-> FALSE, last |-> drain.last]

\* try_iter yields an event: one arm of the match
S_Recv ==
    /\ process = "running" /\ spc = "drain" /\ tick < budget.ticks
    /\ queue # <<>>
    /\ controls' = EventControls(controls, Head(queue))
    /\ ball' = EventBall(ball, Head(queue))
    /\ queue' = Tail(queue)
    /\ received' = received + 1
    /\ drain' = [DrainBegun EXCEPT
                    !.reset = DrainBegun.reset \/ Head(queue).type = "Reset"]
    /\ UNCHANGED <<paddle, spc, built, tick, meshCell, cameraX, meshLock,
                   cameraLock, renderVars, redraw, process, budget, sent,
                   latest, snapshots, geo>>

\* a drain that stops after the events it has taken, the channel empty or not
S_DrainStop ==
    /\ process = "running" /\ spc = "drain" /\ tick < budget.ticks
    /\ spc' = "step"
    /\ drain' = DrainBegun
    /\ UNCHANGED <<controls, paddle, ball, built, tick, sharedVars,
                   renderVars, redraw, process, budget, sent, received,
                   latest, snapshots, geo>>

\* try_iter finds the channel empty: the for loop ends
S_DrainEnd ==
    /\ process = "running" /\ spc = "drain" /\ tick < budget.ticks
    /\ queue = <<>>
    /\ spc' = "step"
    /\ drain' = DrainBegun
    /\ UNCHANGED <<controls, paddle, ball, built, tick, sharedVars,
                   renderVars, redraw, process, budget, sent, received,
                   latest, snapshots, geo>>

\* the outcomes of the scene rebuild: FALSE, it returns; TRUE, an index
\* addition of a push leaves u16 and the build checks overflow: the thread
\* panics
RebuildPanics(zone, pushed) ==
    {FALSE} \cup {panic \in {TRUE} : SceneOverflows(zone, pushed)}

\* steering, position update, gravity, collision, damping, integration,
\* the loss check and the new builder of the scene rebuild
S_Step ==
    /\ process = "running" /\ spc = "step"
    /\ \E p \in {AdvancePaddle(controls, paddle)} :
       \E hit \in {PaddleContains(p, Fallen(ball))} :
       \E g \in Draws(hit) :
       \E b \in {AdvanceBall(p, ball, hit, g)} :
       \E lost \in {LoseZoneContains(b.position)} :
       \E zone \in {LoseZonePush(MeshBuilderDefault)} :
       \E pushed \in {PaddlePush(p, zone)} :
       \E panic \in RebuildPanics(zone, pushed) :
           /\ paddle' = p
           /\ ball' = b
           /\ queue' = IF lost THEN Append(queue, ResetEvent) ELSE queue
           /\ sent' = IF lost THEN sent + 1 ELSE sent
           /\ built' = IF panic THEN built ELSE BallPush(b, pushed)
           /\ snapshots' = IF panic THEN snapshots
                           ELSE snapshots \cup
                                {[paddle |-> p, ball |-> b,
                                  camera |-> CameraUpdate(cameraX, p.x)]}
           /\ spc' = IF panic THEN "panicked" ELSE "lock_mesh"
    /\ UNCHANGED <<controls, tick, meshCell, cameraX, meshLock, cameraLock,
                   renderVars, redraw, process, budget, received, latest,
                   drain, geo>>

\* mesh.lock()
S_LockMesh ==
    /\ process = "running" /\ spc = "lock_mesh"
    /\ meshLock = "free"
    /\ meshLock' = "sim"
    /\ spc' = "store_mesh"
    /\ UNCHANGED <<controls, paddle, ball, built, tick, queue, meshCell,
                   cameraX, cameraLock, renderVars, redraw, process, budget,
                   historyVars, geo>>

\* an edit of the cell in place that is interrupted before the ball is pushed
S_StoreMeshInPlace ==
    /\ process = "running" /\ spc = "store_mesh"
    /\ meshCell' = PaddlePush(paddle, LoseZonePush(MeshBuilderDefault))
    /\ meshLock' = "free"
    /\ spc' = "lock_camera"
    /\ UNCHANGED <<controls, paddle, ball, built, tick, queue, cameraX,
                   cameraLock, renderVars, redraw, process, budget,
                   historyVars, geo>>

\* the assignment through the guard; the guard drops with the statement
S_StoreMesh ==
    /\ process = "running" /\ spc = "store_mesh"
    /\ meshCell' = built
    /\ meshLock' = "free"
    /\ spc' = "lock_camera"
    /\ UNCHANGED <<controls, paddle, ball, built, tick, queue, cameraX,
                   cameraLock, renderVars, redraw, process, budget,
                   historyVars, geo>>

\* camera_x.lock()
S_LockCamera ==
    /\ process = "running" /\ spc = "lock_camera"
    /\ cameraLock = "free"
    /\ cameraLock' = "sim"
    /\ spc' = "store_camera"
    /\ UNCHANGED <<controls, paddle, ball, built, tick, queue, meshCell,
                   cameraX, meshLock, renderVars, redraw, process, budget,
                   historyVars, geo>>

\* the camera update; the guard drops with the block
S_StoreCamera ==
    /\ process = "running" /\ spc = "store_camera"
    /\ cameraX' = CameraUpdate(cameraX, paddle.x)
    /\ cameraLock' = "free"
    /\ spc' = "request_redraw"
    /\ UNCHANGED <<controls, paddle, ball, built, tick, queue, meshCell,
                   meshLock, renderVars, redraw, process, budget,
                   historyVars, geo>>

\* window.request_redraw() and the sleep: the iteration is complete
S_RequestRedraw ==
    /\ process = "running" /\ spc = "request_redraw"
    /\ redraw' = TRUE
    /\ tick' = tick + 1
    /\ spc' = "drain"
    /\ drain' = [started |-> FALSE, start |-> 0, reset |-> FALSE,
                 last |-> drain.reset]
    /\ UNCHANGED <<controls, paddle, ball, built, sharedVars, renderVars,
                   process, budget, sent, received, latest, snapshots, geo>>

\* ------------------------------------------------------------------ event thread
Send(e) ==
    /\ queue' = Append(queue, e)
    /\ sent' = sent + 1
    /\ latest' = IF e.type = "Left" THEN [latest EXCEPT !.left = e.state]
                 ELSE IF e.type = "Right" THEN [latest EXCEPT !.right = e.state]
                 ELSE latest

\* WindowEvent::KeyboardInput.  The budget counts the events sent.
KeyboardInput(key, state) ==
    /\ process = "running" /\ rpc = "idle"
    /\ IF key = "ArrowRight"
       THEN Send([type |-> "Right", state |-> state])
       ELSE IF key = "ArrowLeft"
       THEN Send([type |-> "Left", state |-> state])
       ELSE IF key = "Space" /\ state = Pressed THEN Send(ResetEvent)
       ELSE UNCHANGED <<queue, sent, latest>>
    /\ process' = IF key = "Escape" THEN "exited" ELSE process
    /\ budget' = IF queue' # queue
                 THEN [budget EXCEPT !.keys = budget.keys - 1] ELSE budget
    /\ budget'.keys >= 0
    /\ UNCHANGED <<simVars, meshCell, cameraX, meshLock, cameraLock,
                   renderVars, redraw, received, drain, snapshots, geo>>

\* WindowEvent::CloseRequested
CloseRequested ==
    /\ process = "running" /\ rpc = "idle"
    /\ process' = "exited"
    /\ UNCHANGED <<simVars, sharedVars, renderVars, redraw, budget,
                   historyVars, geo>>

\* WindowEvent::RedrawRequested arrives, asked for by request_redraw or by
\* the window system
R_Redraw ==
    /\ process = "running" /\ rpc = "idle"
    /\ rpc' = "lock_mesh"
    /\ redraw' = FALSE
    /\ UNCHANGED <<simVars, sharedVars, rmesh, rcam, result, handled,
                   process, budget, historyVars, geo>>

\* mesh.lock()
R_LockMesh ==
    /\ process = "running" /\ rpc = "lock_mesh"
    /\ meshLock = "free"
    /\ meshLock' = "render"
    /\ rpc' = "clone"
    /\ UNCHANGED <<simVars, queue, meshCell, cameraX, cameraLock, rmesh,
                   rcam, result, handled, redraw, process, budget,
                   historyVars, geo>>

\* .clone() of the builder behind the guard
R_Clone ==
    /\ process = "running" /\ rpc = "clone"
    /\ rmesh' = meshCell
    /\ rpc' = "build"
    /\ UNCHANGED <<simVars, sharedVars, rcam, result, handled, redraw,
                   process, budget, historyVars, geo>>

\* a handler that keeps the mesh guard in a variable, alive while it locks
\* the camera
R_BuildKeepGuard ==
    /\ process = "running" /\ rpc = "build"
    /\ rpc' = "lock_camera"
    /\ UNCHANGED <<simVars, sharedVars, rmesh, rcam, result, handled, redraw,
                   process, budget, historyVars, geo>>

\* .build(&renderer.device) returns; the guard, a temporary of the let
\* statement, drops when the statement ends
R_Build ==
    /\ process = "running" /\ rpc = "build"
    /\ meshLock' = "free"
    /\ rpc' = "lock_camera"
    /\ UNCHANGED <<simVars, queue, meshCell, cameraX, cameraLock, rmesh,
                   rcam, result, handled, redraw, process, budget,
                   historyVars, geo>>

\* *camera_x.lock().unwrap(): the argument of render
R_LockCamera ==
    /\ process = "running" /\ rpc = "lock_camera"
    /\ cameraLock = "free"
    /\ cameraLock' = "render"
    /\ rcam' = cameraX
    /\ rpc' = "render"
    /\ UNCHANGED <<simVars, queue, meshCell, cameraX, meshLock, rmesh,
                   result, handled, redraw, process, budget, historyVars,
                   geo>>

\* renderer.render(mesh, camera) returns
R_Render ==
    /\ process = "running" /\ rpc = "render"
    /\ \E res \in RenderResults : result' = res
    /\ rpc' = "handle"
    /\ UNCHANGED <<simVars, sharedVars, rmesh, rcam, handled, redraw,
                   process, budget, historyVars, geo>>

\* a match in which every error takes the arm of OutOfMemory
HandleResultFatal(res) == IF res = "Ok" THEN "none" ELSE "exit"

\* what each arm of the match on the result does
HandleResult(res) ==
    IF res = "Ok" THEN "none"
    ELSE IF res = "Lost" THEN "resize"
    ELSE IF res = "OutOfMemory" THEN "exit"
    ELSE "log"

\* the arm of the match that the result selects runs
R_Handle ==
    /\ process = "running" /\ rpc = "handle"
    /\ handled' = HandleResult(result)
    /\ rpc' = "end_match"
    /\ UNCHANGED <<simVars, sharedVars, rmesh, rcam, result, redraw, process,
                   budget, historyVars, geo>>

\* the match ends: the camera guard, a temporary of the scrutinee, drops
\* here; after elwt.exit() the event loop returns and the process ends
R_EndMatch ==
    /\ process = "running" /\ rpc = "end_match"
    /\ cameraLock' = "free"
    /\ process' = IF handled = "exit" THEN "exited" ELSE process
    /\ rpc' = "idle"
    /\ rmesh' = MeshBuilderDefault
    /\ rcam' = 0
    /\ result' = "none"
    /\ handled' = "none"
    /\ UNCHANGED <<simVars, queue, meshCell, cameraX, meshLock, redraw,
                   budget, historyVars, geo>>

\* ------------------------------------------------------------------ specifications
SimNext ==
    \/ S_Recv \/ S_DrainEnd \/ S_Step \/ S_LockMesh \/ S_StoreMesh
    \/ S_LockCamera \/ S_StoreCamera \/ S_RequestRedraw

EventNext ==
    \/ \E key \in Keys, state \in ElementStates : KeyboardInput(key, state)
    \/ CloseRequested
    \/ R_Redraw \/ R_LockMesh \/ R_Clone \/ R_Build \/ R_LockCamera
    \/ R_Render \/ R_Handle \/ R_EndMatch

\* the two threads interleaved
Next == SimNext \/ EventNext

Spec == Init /\ [][Next]_vars

\* the two threads under the scheduling the program relies on: a thread
\* that can take its next step, and can go on taking it, does take it, and
\* the calls into the renderer return.  std::sync::Mutex promises no order
\* among the threads that want it: a thread waiting for a mutex the other
\* thread takes again and again has no fairness here.  The fourth conjunct
\* is the weak fairness of S_StoreCamera, written over the states in which
\* that step is enabled.
Fairness ==
    /\ WF_vars(S_LockMesh)
    /\ WF_vars(S_StoreMesh)
    /\ WF_vars(S_LockCamera)
    /\ []<>(~(process = "running" /\ spc = "store_camera"))
    /\ WF_vars(R_Clone \/ R_Build \/ R_Render \/ R_Handle \/ R_EndMatch)

SpecLive == Init /\ [][Next]_vars /\ Fairness

\* ------------------------------------------------------------------ MeshBuilder::push applied
\* bounds: the pushes of one builder, and the vertices of a large batch
PushMax == 3
BulkSize == 65532

\* the batches pushed: the quad of the lose zone, the fan of a ball at the
\* spawn point, and BulkSize vertices with a line from the first to the last
BatchVertices(kind) ==
    IF kind = "quad" THEN LoseZoneVertices
    ELSE IF kind = "fan"
    THEN BallVertices([position |-> Spawn, velocity |-> <<Zero, Zero>>])
    ELSE [k \in 1..BulkSize |-> [position |-> <<Zero, Zero>>, color |-> White]]

BatchIndices(kind) ==
    IF kind = "quad" THEN QuadIndices
    ELSE IF kind = "fan" THEN BallIndices
    ELSE <<0, BulkSize - 1>>

\* one more push to a builder; the large batch only as the first.  The
\* outcomes of a push: it returns, or current_vertex + i leaves u16 and the
\* build checks overflow: the thread panics.  Of the builder geo keeps what
\* push reads, the number of its vertices and its indices; the pushes made
\* to it (the places of each push's indices and of its vertices); the
\* vertices the builder holds once the last push called has returned; and
\* whether that push has panicked
G_Push ==
    /\ geo.mode = "push" /\ ~geo.panicked /\ Len(geo.pushes) < PushMax
    /\ \E kind \in {k \in {"quad", "fan", "bulk"} :
                       k = "bulk" => geo.pushes = <<>>} :
       \E mesh \in {[vertices |->
                         [k \in 1..geo.count |->
                             [position |-> <<Zero, Zero>>, color |-> White]],
                     indices |-> geo.indices]} :
       \E vertices \in {BatchVertices(kind)} :
       \E indices \in {BatchIndices(kind)} :
       \E panic \in {FALSE} \cup
                     {q \in {TRUE} : MeshPushOverflows(mesh, indices)} :
       \E pushed \in {MeshPush(mesh, vertices, indices)} :
           geo' = IF panic
                  THEN [geo EXCEPT
                           !.total = geo.count + Len(vertices),
                           !.panicked = TRUE]
                  ELSE [geo EXCEPT
                           !.count = Len(pushed.vertices),
                           !.indices = pushed.indices,
                           !.total = geo.count + Len(vertices),
                           !.pushes = Append(@,
                               [from |-> Len(geo.indices) + 1,
                                to |-> Len(geo.indices) + Len(indices),
                                lo |-> geo.count,
                                hi |-> geo.count + Len(vertices) - 1])]
    /\ UNCHANGED gameVars

\* ------------------------------------------------------------------ long runs of the simulation loop
\* the simulation thread alone, over LongTicks iterations, under key
\* events; or a new builder and the pushes to it
InitSim ==
    /\ InitGame
    /\ \/ budget = [ticks |-> LongTicks, keys |-> LongKeys] /\ geo = NoGeo
       \/ /\ budget = [ticks |-> 0, keys |-> 0]
          /\ geo = [mode |-> "push",
                    count |-> Len(MeshBuilderDefault.vertices),
                    indices |-> MeshBuilderDefault.indices,
                    pushes |-> <<>>, total |-> 0, panicked |-> FALSE]

\* key events arrive while the simulation thread is inside an iteration
\* whose number is a multiple of KeyPeriod, at any place of the loop body:
\* of the LongTicks iterations of a run these are the first and the one
\* KeyPeriod later.  Spec lets them arrive at every step of either thread.
\* The ball, spawned at rest above the paddle, falls onto it within
\* LongTicks iterations: these runs take the collision branch of S_Step.
KeyInputSim ==
    /\ tick % KeyPeriod = 0
    /\ \E key \in Keys, state \in ElementStates : KeyboardInput(key, state)

SpecSim == InitSim /\ [][SimNext \/ KeyInputSim \/ G_Push]_vars

\* ------------------------------------------------------------------ the camera update applied
\* bound: how many f32 values the camera offset is from paddle.x, at most
CamGap == 8

\* values of paddle.x: 0, 0.3, 2.448672 (where a paddle that was steered
\* right and then left turns back), the end of the camera's range and the
\* end of the track, on both sides
CamPoints == {0, 1050253722, -1050253722, 1075623691, -1075623691,
              CameraBound, -CameraBound, TrackBound, -TrackBound}

\* a paddle.x and a camera offset of the range [-5, 5]: one within CamGap
\* values of paddle.x, 0, or an end of the range
InitCam ==
    /\ InitGame
    /\ budget = [ticks |-> 0, keys |-> 0]
    /\ \E x \in CamPoints :
       \E c \in {x + d : d \in (-CamGap)..CamGap} \cup
                 {0, CameraBound, -CameraBound} :
           /\ F32Le(-CameraBound, c) /\ F32Le(c, CameraBound)
           /\ geo = [mode |-> "camera", camera |-> c, x |-> x,
                     done |-> FALSE, out |-> 0]

G_Camera ==
    /\ geo.mode = "camera" /\ ~geo.done
    /\ geo' = [geo EXCEPT !.done = TRUE,
                          !.out = CameraUpdate(geo.camera, geo.x)]
    /\ UNCHANGED gameVars

\* the two threads interleaved, or the camera update on its own
SpecCam == (Init \/ InitCam) /\ [][Next \/ G_Camera]_vars

\* ------------------------------------------------------------------ the geometry primitives applied
\* The inputs are literals with one digit after the point, kept in tenths:
\* Lit(k) is the f32 the literal k/10 denotes.  Vertical velocities are
\* kept in hundredths.
TriMax == 2
SegMax == 2
VyMax == 100
NearMax == 4

Hundred == 1120403456
Lit(k) == F32Div(F32FromInt(k), Ten)
LitV(v) == <<Lit(v[1]), Lit(v[2])>>
Cent(j) == F32Div(F32FromInt(j), Hundred)
Quarter(k) == F32Div(F32FromInt(k), F32FromInt(4))

Cross(o, u, v) ==
    (u[1] - o[1]) * (v[2] - o[2]) - (u[2] - o[2]) * (v[1] - o[1])

\* p lies on the line through two of the vertices
OnEdgeLine(p, v1, v2, v3) ==
    Cross(v1, v2, p) = 0 \/ Cross(v2, v3, p) = 0 \/ Cross(v3, v1, p) = 0

\* vertices at halves from -0.5 on, points at halves and at +-0.1
TriVerts == {<<5 * i, 5 * j>> : i \in {-1, 0, TriMax}, j \in (-1)..TriMax}
TriCoords == {-5, -1, 0, 1, 5, 10}
SegCoords == {-10, -1, 1} \cup {5 * j : j \in (-1)..(2 * SegMax)}

InitGeom ==
    /\ InitGame
    /\ budget = [ticks |-> 0, keys |-> 0]
    /\ \/ \E v1, v2, v3 \in TriVerts, p \in TriCoords \X TriCoords :
            /\ Cross(v1, v2, v3) # 0
            /\ geo = [mode |-> "triangle", p |-> p, v1 |-> v1, v2 |-> v2,
                      v3 |-> v3, r |-> 0, done |-> FALSE, out |-> FALSE]
       \* in quarters: vertices at halves, a point on the line of an edge,
       \* to be moved by one f32 value along x or along y
       \/ \E v1, v2, v3 \in {<<-2, -2>>, <<-2, 4>>, <<4, 2>>,
                              <<0, 0>>, <<4, 0>>, <<0, 4>>},
             p \in ((-2)..NearMax) \X ((-2)..NearMax),
             n \in {<<1, 0>>, <<-1, 0>>, <<0, 1>>, <<0, -1>>} :
            /\ Cross(v1, v2, v3) # 0
            /\ OnEdgeLine(p, v1, v2, v3)
            /\ geo = [mode |-> "near", p |-> p, v1 |-> v1, v2 |-> v2,
                      v3 |-> v3, nudge |-> n, done |-> FALSE, out |-> FALSE]
       \/ \E a, b \in SegCoords \X SegCoords,
             c \in {<<10 * i, 10 * j>> : i, j \in 0..1}, r \in {5, 10} :
            geo = [mode |-> "segment", p |-> c, v1 |-> a, v2 |-> b,
                   v3 |-> <<0, 0>>, r |-> r, done |-> FALSE, out |-> FALSE]
       \/ \E vy \in (-VyMax)..VyMax :
            geo = [mode |-> "gravity", p |-> <<0, vy>>, v1 |-> <<0, 0>>,
                   v2 |-> <<0, 0>>, v3 |-> <<0, 0>>, r |-> 0,
                   done |-> FALSE, out |-> FALSE]

G_TriangleContains ==
    /\ geo.mode = "triangle" /\ ~geo.done
    /\ geo' = [geo EXCEPT
                  !.done = TRUE,
                  !.out = triangle_contains(LitV(geo.p), LitV(geo.v1),
                                            LitV(geo.v2), LitV(geo.v3))]
    /\ UNCHANGED gameVars

\* triangle_contains at the point of geo on the grid of quarters moved by
\* nudge f32 values
G_TriangleNear ==
    /\ geo.mode = "near" /\ ~geo.done
    /\ geo' = [geo EXCEPT
                  !.done = TRUE,
                  !.out = triangle_contains(
                              <<Quarter(geo.p[1]) + geo.nudge[1],
                                Quarter(geo.p[2]) + geo.nudge[2]>>,
                              <<Quarter(geo.v1[1]), Quarter(geo.v1[2])>>,
                              <<Quarter(geo.v2[1]), Quarter(geo.v2[2])>>,
                              <<Quarter(geo.v3[1]), Quarter(geo.v3[2])>>)]
    /\ UNCHANGED gameVars

G_CircleSegment ==
    /\ geo.mode = "segment" /\ ~geo.done
    /\ geo' = [geo EXCEPT
                  !.done = TRUE,
                  !.out = circle_intersects_line_segment(
                              LitV(geo.p), Lit(geo.r),
                              LitV(geo.v1), LitV(geo.v2))]
    /\ UNCHANGED gameVars

\* the gravity step applied to the velocity.y of geo.p[2] hundredths; the
\* new velocity.y, an f32, is kept in geo.r
G_Gravity ==
    /\ geo.mode = "gravity" /\ ~geo.done
    /\ geo' = [geo EXCEPT !.done = TRUE, !.r = Gravity(Cent(geo.p[2]))]
    /\ UNCHANGED gameVars

SpecGeom ==
    InitGeom /\ [][G_TriangleContains \/ G_TriangleNear \/ G_CircleSegment
                   \/ G_Gravity]_vars

\* ------------------------------------------------------------------ claims: the two threads
\* the positions of the redraw handler at which the mesh has been read
MeshRead == {"build", "lock_camera", "render", "handle", "end_match"}

\* the mesh is the scene rebuild of one tick
SingleTickMesh(mesh) ==
    \E s \in snapshots : mesh = BuildScene(s.paddle, s.ball)

\* C1 as stated: the mesh every redraw reads is the mesh one single tick
\* built from its lose zone, paddle and ball.
C1_EveryRedrawReadsATick ==
    rpc \in MeshRead => SingleTickMesh(rmesh)

\* C1: the mesh a redraw reads is the empty mesh the cell is created with,
\* or the mesh one single tick built from its post-integration lose zone,
\* paddle and ball: never a mix of ticks and never a partially built mesh.
C1_MeshOfOneTick ==
    rpc \in MeshRead => (rmesh = MeshBuilderDefault \/ SingleTickMesh(rmesh))

\* a redraw has read the mesh of an earlier tick while the simulation
\* thread has already advanced the entities of the next one
C1_Witness ==
    /\ rpc = "render"
    /\ rmesh # MeshBuilderDefault
    /\ spc = "lock_mesh"
    /\ rmesh # BuildScene(paddle, ball)

\* C2: while the mesh is built and uploaded, while render runs and while
\* its result is handled, the event thread holds neither the mesh lock nor
\* the camera lock.
C2_NoLockDuringGpu ==
    rpc \in {"build", "render", "handle", "end_match"} =>
        (meshLock # "render" /\ cameraLock # "render")

\* C6: events are applied in the order they were sent and a drain takes
\* the whole backlog: no event is lost or duplicated, the controls with the
\* pending events applied in order are the states of the last Left and the
\* last Right sent (Released if none), and once a drain has ended every
\* event sent before it started has been applied.
C6_FifoWholeBacklog ==
    /\ sent = received + Len(queue)
    /\ DrainControls(controls, queue) = latest
    /\ spc # "drain" => (received >= drain.start /\ drain.started)
    /\ (spc # "drain" /\ sent = drain.start) => controls = latest

\* two events were sent before the drain started; the drain has applied
\* both and the controls carry the states sent last
C6_Witness ==
    /\ spc = "step"
    /\ drain.start = 2 /\ received = 2 /\ sent = 2
    /\ controls = latest
    /\ controls.right = Pressed

\* C7: handling a render result of Lost or of an error other than
\* OutOfMemory leaves the mesh cell, the camera cell and the queue as they
\* are and the process running: Lost resizes, other errors are logged, the
\* handler returns with its locks free; only OutOfMemory ends the process.
C7_HandleStep ==
    /\ (rpc = "handle" /\ rpc' = "end_match") =>
          /\ handled' = (IF result = "Lost" THEN "resize"
                         ELSE IF result = "OutOfMemory" THEN "exit"
                         ELSE IF result = "Ok" THEN "none" ELSE "log")
          /\ process' = "running"
          /\ <<meshCell, cameraX, queue>>' = <<meshCell, cameraX, queue>>
    /\ (rpc = "end_match" /\ rpc' = "idle") =>
          /\ process' = (IF result = "OutOfMemory" THEN "exited"
                         ELSE "running")
          /\ cameraLock' = "free" /\ meshLock' # "render"
          /\ <<meshCell, cameraX, queue>>' = <<meshCell, cameraX, queue>>
          /\ <<spc, tick, paddle, ball>>' = <<spc, tick, paddle, ball>>

\* C7 as a property of every step of the redraw handler
C7_RenderErrorsRecovered == [][C7_HandleStep]_vars

\* a frame was lost while the simulation thread was inside its second
\* tick: the handler has resized and the process runs on
C7_Witness ==
    /\ rpc = "end_match" /\ result = "Lost" /\ handled = "resize"
    /\ process = "running"
    /\ spc = "lock_camera" /\ tick > 0

\* C15: the mesh and the camera offset one redraw uses were published by
\* the same tick, or are both the values the cells were created with.
C15_MeshAndCameraOfOneTick ==
    rpc \in {"render", "handle", "end_match"} =>
        \/ rmesh = MeshBuilderDefault /\ rcam = 0
        \/ \E s \in snapshots :
               rmesh = BuildScene(s.paddle, s.ball) /\ rcam = s.camera

\* a thread that waits for one lock does not hold the other
NoHoldAndWait ==
    /\ spc = "lock_mesh" => cameraLock # "sim"
    /\ spc = "lock_camera" => meshLock # "sim"
    /\ rpc = "lock_mesh" => cameraLock # "render"
    /\ rpc = "lock_camera" => meshLock # "render"

\* each thread waits for a lock the other holds
Deadlocked ==
    /\ \/ spc = "lock_mesh" /\ meshLock = "render"
       \/ spc = "lock_camera" /\ cameraLock = "render"
    /\ \/ rpc = "lock_mesh" /\ meshLock = "sim"
       \/ rpc = "lock_camera" /\ cameraLock = "sim"

\* C18 as stated: neither thread waits for one lock while it holds the
\* other, no state is a deadlock, and, the calls into the renderer
\* returning, a tick that has rebuilt its scene goes on to publish the mesh
\* and to update the camera (unless the process exits first).
C18_NoDeadlockAndProgress ==
    /\ [](NoHoldAndWait /\ ~Deadlocked)
    /\ (spc = "lock_mesh") ~>
           (process = "exited" \/
            (spc = "lock_camera" /\ meshCell = built))
    /\ (spc = "lock_camera") ~>
           (process = "exited" \/ spc = "request_redraw")

\* a waiting thread is not passed over for ever: a lock that is free again
\* and again goes to the simulation thread at some time
LocksFair == SF_vars(S_LockMesh) /\ SF_vars(S_LockCamera)

\* C18: neither thread waits for one lock while it holds the other and no
\* state is a deadlock; if moreover the simulation thread is not passed
\* over for ever at a lock that is released again and again, then, the
\* calls into the renderer returning, a tick that has rebuilt its scene
\* goes on to publish the mesh and to update the camera (unless the process
\* exits first).
C18_NoDeadlockFairProgress ==
    /\ [](NoHoldAndWait /\ ~Deadlocked)
    /\ LocksFair =>
           /\ (spc = "lock_mesh") ~>
                  (process = "exited" \/
                   (spc = "lock_camera" /\ meshCell = built))
           /\ (spc = "lock_camera") ~>
                  (process = "exited" \/ spc = "request_redraw")

\* the simulation thread waits for the camera lock while the handler holds
\* it across render; the mesh lock is free
C18_Witness ==
    /\ spc = "lock_camera" /\ cameraLock = "render" /\ rpc = "render"
    /\ meshLock = "free"

\* the step that consumes the event at the head of the channel
C20_RecvStep ==
    (received' = received + 1 /\ queue # <<>>) =>
        /\ paddle' = paddle
        /\ Head(queue).type = "Reset" =>
               /\ ball'.position = Spawn
               /\ ball'.velocity = ball.velocity
               /\ controls' = controls
        /\ Head(queue).type = "Left" =>
               /\ controls'.left = Head(queue).state
               /\ controls'.right = controls.right
               /\ ball' = ball
        /\ Head(queue).type = "Right" =>
               /\ controls'.right = Head(queue).state
               /\ controls'.left = controls.left
               /\ ball' = ball

\* C20: consuming an event changes only its target: a Reset sets
\* ball.position and leaves ball.velocity, the paddle and Controls as they
\* were; a Left or Right sets its own field of Controls and leaves the other
\* field, the ball and the paddle as they were.
C20_EventChangesOnlyItsTarget == [][C20_RecvStep]_vars

\* a drain has consumed a Reset and a press of ArrowLeft: the ball is at the
\* spawn point and still moving, left is latched, the paddle has not moved
C20_Witness ==
    /\ spc = "drain" /\ drain.reset
    /\ ball.position = Spawn /\ ball.velocity # <<0, 0>>
    /\ controls.left = Pressed
    /\ paddle = [x |-> 0, velocity |-> 0]

\* ------------------------------------------------------------------ claims: the ticks
\* a Reset is waiting in the channel
HasReset(q) == \E k \in 1..Len(q) : q[k].type = "Reset"

\* C3 as stated: at the start of the tick after the one whose drain consumed
\* a Reset the ball is at the spawn point.
C3_AtSpawnNextTick ==
    (spc = "drain" /\ ~drain.started /\ drain.last) => ball.position = Spawn

\* C3: a drain that consumes a Reset leaves the ball at the spawn point,
\* where it is when the drain ends, and the integration of the same tick
\* moves it from there: at the start of the next tick the ball is at the
\* spawn point plus its velocity.
C3_SpawnThenIntegrated ==
    /\ HasReset(queue) => DrainBall(ball, queue).position = Spawn
    /\ (spc \in {"drain", "step"} /\ drain.reset) => ball.position = Spawn
    /\ (spc = "drain" /\ ~drain.started /\ drain.last) =>
           ball.position = Integrate(Spawn, ball.velocity)

\* the loss check has sent a Reset, the next tick has consumed it, and at
\* the start of the tick after that the ball has already left the spawn
\* point
C3_Witness ==
    /\ spc = "drain" /\ ~drain.started /\ drain.last
    /\ sent > LongKeys - budget.keys
    /\ ball.position # Spawn
    /\ ball.position = Integrate(Spawn, ball.velocity)

\* C4: at the end of every tick paddle.x lies in [-5.5, 5.5].
C4_PaddleOnTrack ==
    F32Le(-TrackBound, paddle.x) /\ F32Le(paddle.x, TrackBound)

\* one direction was held until the paddle reached the end of the track
C4_Witness ==
    /\ paddle.x = TrackBound
    /\ controls.right = Pressed /\ paddle.velocity = One

\* C5: after the damping and clamp of every tick both components of
\* ball.velocity lie in [-0.1, 0.1].
C5_BallSpeedBounded ==
    /\ F32Le(-BallSpeedBound, ball.velocity[1])
    /\ F32Le(ball.velocity[1], BallSpeedBound)
    /\ F32Le(-BallSpeedBound, ball.velocity[2])
    /\ F32Le(ball.velocity[2], BallSpeedBound)

\* a collision with the paddle has pushed the ball past the bound and the
\* clamp has cut the velocity to it
C5_Witness ==
    /\ tick > 0
    /\ ball.velocity[2] = BallSpeedBound

\* the indices at positions from..to of the mesh lie in lo..hi
IndicesWithin(mesh, from, to, lo, hi) ==
    \A k \in from..to : lo <= mesh.indices[k] /\ mesh.indices[k] <= hi

\* the mesh a tick publishes: 30 vertices and 72 indices, the indices of
\* the lose zone in 0..3, of the paddle in 4..7 and of the ball in 8..29,
\* and no index addition of its pushes has left 16 bits
SceneIndexed ==
    /\ spc # "panicked"
    /\ tick > 0 =>
        /\ Len(meshCell.vertices) = 30
        /\ Len(meshCell.indices) = 72
        /\ IndicesWithin(meshCell, 1, 72, 0, 29)
        /\ IndicesWithin(meshCell, 1, 6, 0, 3)
        /\ IndicesWithin(meshCell, 7, 12, 4, 7)
        /\ IndicesWithin(meshCell, 13, 72, 8, 29)
        /\ meshCell.indices[70] = 8
        /\ meshCell.indices[71] = 29
        /\ meshCell.indices[72] = 28

\* every index a push has stored refers to a vertex of that push
PushesRebased ==
    \A j \in 1..Len(geo.pushes) :
        IndicesWithin(geo, geo.pushes[j].from, geo.pushes[j].to,
                      geo.pushes[j].lo, geo.pushes[j].hi)

\* C11 as stated: after any sequence of pushes whose indices are smaller
\* than the push's own vertex count, every stored index is smaller than the
\* total vertex count and refers to a vertex of the same push; the mesh
\* every tick publishes has 30 vertices and 72 indices, all below 30, and
\* no index addition left 16 bits.
C11_IndicesRebased ==
    /\ SceneIndexed
    /\ geo.mode = "push" => PushesRebased

\* C11: as long as the builder holds no more than 65536 vertices, no push
\* leaves the 16 bits of an index and every stored index refers to a
\* vertex of its own push; the mesh every tick publishes has 30 vertices
\* and 72 indices (lose zone 0..3, paddle 4..7, ball 8..29), and no index
\* addition left 16 bits.
C11_IndicesRebasedInU16 ==
    /\ SceneIndexed
    /\ (geo.mode = "push" /\ geo.total <= U16) =>
           (~geo.panicked /\ PushesRebased)

\* a large batch and a quad have filled the builder to 65536 vertices; the
\* last index of the quad is the rebased 3
C11_Witness ==
    /\ geo.mode = "push" /\ ~geo.panicked
    /\ Len(geo.pushes) = 2
    /\ geo.count = U16
    /\ geo.indices[Len(geo.indices)] = U16 - 1

\* the vertex at the centre of the ball's fan, the first the ball pushes
BallCentre(mesh) == mesh.vertices[9].position

\* the events of queue' that the keyboard handler sent during the step
KeysSent == budget.keys - budget'.keys

\* C12: the loss check of a tick that has integrated the ball to
\* ball.position.y < -0.9 sends exactly one Reset, to the end of the
\* channel, and that of a tick with ball.position.y >= -0.9 sends nothing;
\* no other step of the loop sends; the tick leaves the ball where the
\* integration put it, which is where the mesh it publishes shows it, and
\* only the drain of a Reset brings the ball to the spawn point.
C12_TickStep ==
    /\ (spc = "step" /\ spc' # "step") =>
          IF F32Lt(ball'.position[2], -1063675494)
          THEN queue' = Append(queue, ResetEvent) /\ sent' = sent + 1
          ELSE queue' = queue /\ sent' = sent
    /\ (spc = "store_mesh" /\ spc' # "store_mesh") =>
          BallCentre(meshCell') = ball.position
    /\ ~(spc = "step" /\ spc' # "step") => sent' = sent + KeysSent
    /\ (spc # "step" /\ spc' # spc) => queue' = queue
    /\ ball' # ball =>
          \/ spc = "drain" /\ received' = received + 1
          \/ spc = "step" /\ spc' # "step"
    /\ (ball'.position = Spawn /\ ball.position # Spawn) =>
          (spc = "drain" /\ received' = received + 1)

C12_LossSendsOneReset == [][C12_TickStep]_vars

\* a tick has ended with the ball in the lose zone: one Reset is pending,
\* the ball is still there and the published mesh shows it there
C12_Witness ==
    /\ F32Lt(ball.position[2], -1063675494)
    /\ queue = <<ResetEvent>>
    /\ BallCentre(meshCell) = ball.position

\* the steering of one tick as a function of the latched controls alone;
\* no other step of the loop changes the paddle
C13_TickStep ==
    /\ (spc = "step" /\ spc' # "step") =>
        LET left == controls.left = Pressed
            right == controls.right = Pressed
            v == paddle.velocity
        IN paddle'.velocity =
               IF left /\ ~right
               THEN (IF F32Lt(F32Sub(v, SteerStep), -One) THEN -One
                     ELSE F32Sub(v, SteerStep))
               ELSE IF right /\ ~left
               THEN (IF F32Gt(F32Add(v, SteerStep), One) THEN One
                     ELSE F32Add(v, SteerStep))
               ELSE F32Mul(v, Decay)
    /\ ~(spc = "step" /\ spc' # "step") => paddle' = paddle

\* C13: with only left pressed the tick makes paddle.velocity
\* max(velocity - 0.05, -1), with only right pressed min(velocity + 0.05, 1),
\* with both or neither pressed velocity * 0.95; paddle.velocity lies in
\* [-1, 1] in every reachable state.
C13_SteeringBounded ==
    /\ [](F32Le(-One, paddle.velocity) /\ F32Le(paddle.velocity, One))
    /\ [][C13_TickStep]_vars

\* left was held until the velocity reached its floor
C13_Witness ==
    /\ paddle.velocity = -One
    /\ controls.left = Pressed /\ controls.right = Released
    /\ tick > 20

\* C14 as stated: the gravity step leaves velocity.y unchanged when it is
\* non-negative or below -0.5.
C14_GravityOnlyInBand ==
    (geo.mode = "gravity" /\ geo.done) =>
        ((geo.p[2] >= 0 \/ geo.p[2] < -50) => geo.r = Cent(geo.p[2]))

\* C14: the gravity step adds clamp(velocity.y, -0.5, -0.1) * 0.01 to
\* velocity.y, so it lowers every velocity: by 0.1 * 0.01 when velocity.y
\* is above -0.1 (a resting or rising ball included), by 0.5 * 0.01 when it
\* is below -0.5, and by a hundredth of its size inside the band.
C14_GravityAlwaysPulls ==
    (geo.mode = "gravity" /\ geo.done) =>
        LET j == geo.p[2]
            vy == Cent(j)
        IN /\ F32Lt(geo.r, vy)
           /\ j >= -10 =>
                  geo.r = F32Add(vy, F32Mul(-GravityRest, GravityFactor))
           /\ j <= -50 =>
                  geo.r = F32Add(vy, F32Mul(-GravityBand, GravityFactor))
           /\ (-50 <= j /\ j <= -10) =>
                  geo.r = F32Add(vy, F32Mul(vy, GravityFactor))

\* the gravity step has pulled a resting ball downward
C14_Witness ==
    /\ geo.mode = "gravity" /\ geo.done
    /\ geo.p[2] = 0
    /\ geo.r = F32Mul(-GravityRest, GravityFactor)
    /\ geo.r < 0

\* camera * 10 + paddle.x over 11, cut to [-5, 5]
CameraMean(camera, x) ==
    LET mean == F32Div(F32Add(F32Mul(camera, Ten), x), CameraDivisor)
    IN IF F32Lt(mean, -CameraBound) THEN -CameraBound
       ELSE IF F32Gt(mean, CameraBound) THEN CameraBound
       ELSE mean

\* new lies between the old offset and paddle.x, up to slack f32 values
Between(camera, x, new, slack) ==
    Min2(camera, x) - slack <= new /\ new <= Max2(camera, x) + slack

\* the camera update of the simulation thread; every other step of either
\* thread leaves the cell alone
CameraStep(slack) ==
    IF spc = "store_camera" /\ spc' # "store_camera"
    THEN /\ cameraX' = CameraMean(cameraX, paddle.x)
         /\ Between(cameraX, paddle.x, cameraX', slack)
    ELSE cameraX' = cameraX

\* the camera update applied to an offset and a paddle.x
CameraApplied(slack) ==
    (geo.mode = "camera" /\ geo.done) =>
        /\ geo.out = CameraMean(geo.camera, geo.x)
        /\ F32Le(-CameraBound, geo.out) /\ F32Le(geo.out, CameraBound)
        /\ Between(geo.camera, geo.x, geo.out, slack)

\* C16 as stated: the camera offset starts at 0, is written only by the
\* camera update of the simulation thread, where it becomes
\* clamp((camera * 10 + paddle.x) / 11, -5, 5) for the paddle.x of that
\* tick, lies in [-5, 5] in every reachable state, and no tick moves it
\* farther from paddle.x than it was: the new offset lies between the old
\* one and paddle.x.
C16_CameraFollowsPaddle ==
    /\ []((tick = 0 /\ spc # "request_redraw") => cameraX = 0)
    /\ [](F32Le(-CameraBound, cameraX) /\ F32Le(cameraX, CameraBound))
    /\ [][CameraStep(0)]_vars
    /\ [](CameraApplied(0))

\* C16: the camera offset starts at 0, is written only by the camera
\* update of the simulation thread, where it becomes
\* clamp((camera * 10 + paddle.x) / 11, -5, 5) for the paddle.x of that
\* tick, lies in [-5, 5] in every reachable state, and the new offset lies
\* between the old one and paddle.x up to the rounding of the f32
\* arithmetic: it is at most one f32 value outside.
C16_CameraFollowsWithinRounding ==
    /\ []((tick = 0 /\ spc # "request_redraw") => cameraX = 0)
    /\ [](F32Le(-CameraBound, cameraX) /\ F32Le(cameraX, CameraBound))
    /\ [][CameraStep(1)]_vars
    /\ [](CameraApplied(1))

\* the camera is at the end of its range and the paddle farther out: the
\* update has left it there
C16_Witness ==
    /\ geo.mode = "camera" /\ geo.done
    /\ geo.camera = CameraBound /\ geo.x = TrackBound
    /\ geo.out = CameraBound

\* a tick that applies a Reset ends with the ball at 0.6 or above, outside
\* the lose zone, and its loss check sends nothing
C19_TickStep ==
    (spc = "step" /\ spc' # "step" /\ drain.reset) =>
        /\ F32Ge(ball'.position[2], 1058642330)
        /\ ~LoseZoneContains(ball'.position)
        /\ queue' = queue
        /\ sent' = sent

\* C19: the loop never sends a Reset in two consecutive ticks: a ball that
\* ends a tick inside the lose zone has a Reset pending, and the tick that
\* applies a Reset ends with ball.position.y >= 0.6, outside the zone, and
\* sends none, so the ball is never inside the zone at the end of two
\* consecutive ticks and at most one Reset of the loop is pending.
C19_NoConsecutiveResets ==
    /\ [](LoseZoneContains(ball.position) => HasReset(queue))
    /\ [][C19_TickStep]_vars

\* the tick after a loss has applied the Reset the loop sent: the ball is
\* back above 0.6 and nothing is pending
C19_Witness ==
    /\ spc = "drain" /\ ~drain.started /\ drain.last
    /\ sent > LongKeys - budget.keys
    /\ F32Ge(ball.position[2], 1058642330)
    /\ queue = <<>>

\* ------------------------------------------------------------------ claims: geometry
\* the three orientations agree: strictly inside
SameSide(d1, d2, d3) ==
    (d1 > 0 /\ d2 > 0 /\ d3 > 0) \/ (d1 < 0 /\ d2 < 0 /\ d3 < 0)

\* one orientation is 0 and the others do not disagree: on an edge
Touches(d1, d2, d3) ==
    /\ d1 = 0 \/ d2 = 0 \/ d3 = 0
    /\ ~((d1 > 0 \/ d2 > 0 \/ d3 > 0) /\ (d1 < 0 \/ d2 < 0 \/ d3 < 0))

\* p lies strictly inside the triangle
StrictlyInside(p, v1, v2, v3) ==
    SameSide(Cross(v1, v2, p), Cross(v2, v3, p), Cross(v3, v1, p))

\* p lies on one of the three edges
OnBoundary(p, v1, v2, v3) ==
    Touches(Cross(v1, v2, p), Cross(v2, v3, p), Cross(v3, v1, p))

\* the side of the line o u on which q moved by n f32 values lies: that of
\* q, and for q on the line that to which n moves it (the orientation is
\* linear in the point, and one f32 value is less than any orientation of
\* the grid)
NearSide(o, u, q, n) ==
    IF Cross(o, u, q) # 0 THEN Cross(o, u, q)
    ELSE (u[1] - o[1]) * n[2] - (u[2] - o[2]) * n[1]

\* the answer for the point and the triangle of geo in near mode is the
\* exact one, unless the point is on the boundary
NearExact ==
    LET d1 == NearSide(geo.v1, geo.v2, geo.p, geo.nudge)
        d2 == NearSide(geo.v2, geo.v3, geo.p, geo.nudge)
        d3 == NearSide(geo.v3, geo.v1, geo.p, geo.nudge)
    IN ~Touches(d1, d2, d3) => (geo.out = SameSide(d1, d2, d3))

TestTriangle(g) ==
    g.v1 = <<0, 0>> /\ g.v2 = <<10, 0>> /\ g.v3 = <<0, 10>>

\* the points of the grid of tenths: off the boundary the answer is the
\* exact one; true at the centroid, and for the triangle (0,0),(1,0),(0,1)
\* true at (0.1,0.1) and false at (1,1) and (-0.1,-0.1)
OnGridExact ==
    LET p == geo.p
        v1 == geo.v1
        v2 == geo.v2
        v3 == geo.v3
    IN /\ ~OnBoundary(p, v1, v2, v3) =>
              (geo.out = StrictlyInside(p, v1, v2, v3))
       /\ (3 * p[1] = v1[1] + v2[1] + v3[1] /\
           3 * p[2] = v1[2] + v2[2] + v3[2]) => geo.out
       /\ (TestTriangle(geo) /\ geo.p = <<1, 1>>) => geo.out
       /\ (TestTriangle(geo) /\ geo.p = <<10, 10>>) => ~geo.out
       /\ (TestTriangle(geo) /\ geo.p = <<-1, -1>>) => ~geo.out

\* C8 as stated: for a non-degenerate triangle and every point off its
\* boundary, triangle_contains is true exactly when the point is in the
\* interior; it is true at the centroid, and for the triangle
\* (0,0),(1,0),(0,1) true at (0.1,0.1) and false at (1,1) and (-0.1,-0.1).
C8_TriangleContains ==
    /\ (geo.mode = "triangle" /\ geo.done) => OnGridExact
    /\ (geo.mode = "near" /\ geo.done) => NearExact

\* C8: for a non-degenerate triangle and a point that is neither on its
\* boundary nor within f32 rounding of it, triangle_contains is true
\* exactly when the point is in the interior, a point one f32 value from
\* the line of an edge but away from the edge itself included; it is true
\* at the centroid, and for the triangle (0,0),(1,0),(0,1) true at
\* (0.1,0.1) and false at (1,1) and (-0.1,-0.1).
C8_TriangleContainsOffRounding ==
    /\ (geo.mode = "triangle" /\ geo.done) => OnGridExact
    /\ (geo.mode = "near" /\ geo.done /\
        ~OnBoundary(geo.p, geo.v1, geo.v2, geo.v3)) =>
           (geo.out = StrictlyInside(geo.p, geo.v1, geo.v2, geo.v3))

\* a point strictly inside a triangle with a vertical and a horizontal edge
\* has been tested and found inside
C8_Witness ==
    /\ geo.mode = "triangle" /\ geo.done
    /\ TestTriangle(geo) /\ geo.p = <<1, 1>>
    /\ geo.out

\* the squared distance from c to the segment a b against r squared, in
\* exact arithmetic: Within(TRUE) is distance <= r, Within(FALSE) is
\* distance < r.  The closest point is an endpoint, or the foot of the
\* perpendicular when that lies on the segment.
SegmentDistance(c, r, a, b, closed) ==
    LET lx == b[1] - a[1]
        ly == b[2] - a[2]
        ax == c[1] - a[1]
        ay == c[2] - a[2]
        bx == c[1] - b[1]
        by == c[2] - b[2]
        len2 == lx * lx + ly * ly
        tn == ax * lx + ay * ly
        cr == ax * ly - ay * lx
        Le(x, y) == IF closed THEN x <= y ELSE x < y
    IN \/ Le(ax * ax + ay * ay, r * r)
       \/ Le(bx * bx + by * by, r * r)
       \/ 0 <= tn /\ tn <= len2 /\ Le(cr * cr, r * r * len2)

SegmentWithin(c, r, a, b) == SegmentDistance(c, r, a, b, TRUE)
SegmentStrictlyWithin(c, r, a, b) == SegmentDistance(c, r, a, b, FALSE)

\* C9 as stated: for a segment with a # b, circle_intersects_line_segment
\* is true exactly when the distance from c to the closest point of the
\* segment is at most r.
C9_CircleSegment ==
    (geo.mode = "segment" /\ geo.done /\ geo.v1 # geo.v2) =>
        (geo.out = SegmentWithin(geo.p, geo.r, geo.v1, geo.v2))

\* C9: for a segment with a # b, circle_intersects_line_segment is true
\* when the distance from c to the closest point of the segment is less
\* than r and false when it is more than r; when the distance is exactly r
\* the rounding of the computed distance decides.  A segment that starts at
\* the centre, or lies within the circle, intersects.
C9_CircleSegmentOffTangency ==
    (geo.mode = "segment" /\ geo.done /\ geo.v1 # geo.v2) =>
        /\ SegmentStrictlyWithin(geo.p, geo.r, geo.v1, geo.v2) => geo.out
        /\ geo.out => SegmentWithin(geo.p, geo.r, geo.v1, geo.v2)

\* a segment that starts at the centre and is shorter than the radius has
\* been tested and found to intersect
C9_Witness ==
    /\ geo.mode = "segment" /\ geo.done
    /\ geo.p = <<0, 0>> /\ geo.r = 10
    /\ geo.v1 = <<0, 0>> /\ geo.v2 = <<1, 1>>
    /\ geo.out

\* C10: for a degenerate segment (a = b) circle_intersects_line_segment
\* equals distance(c, a) <= r.
C10_DegenerateSegment ==
    (geo.mode = "segment" /\ geo.done /\ geo.v1 = geo.v2) =>
        LET c == geo.p
            a == geo.v1
            r == geo.r
        IN geo.out = ((c[1] - a[1]) * (c[1] - a[1]) +
                      (c[2] - a[2]) * (c[2] - a[2]) <= r * r)

\* the three vertices in every order, and the two ends of every edge in
\* both orders, give the same answers for the point of geo
SameInEveryOrder ==
    LET p == LitV(geo.p)
        v1 == LitV(geo.v1)
        v2 == LitV(geo.v2)
        v3 == LitV(geo.v3)
    IN /\ geo.out = triangle_contains(p, v1, v3, v2)
       /\ geo.out = triangle_contains(p, v2, v1, v3)
       /\ geo.out = triangle_contains(p, v2, v3, v1)
       /\ geo.out = triangle_contains(p, v3, v1, v2)
       /\ geo.out = triangle_contains(p, v3, v2, v1)
       /\ is_right(p, v1, v2) = is_right(p, v2, v1)
       /\ is_right(p, v1, v3) = is_right(p, v3, v1)
       /\ is_right(p, v2, v3) = is_right(p, v3, v2)

\* C17 as stated: triangle_contains gives the same result for every order
\* of the three vertices, and is_right(p, a, b) = is_right(p, b, a) for each
\* edge of the triangle, for every point p.
C17_OrderOfVertices ==
    (geo.mode = "triangle" /\ geo.done) => SameInEveryOrder

\* C17: for a point p that is on none of the lines through two of the
\* vertices, triangle_contains gives the same result for every order of the
\* three vertices and is_right(p, a, b) = is_right(p, b, a) for each edge,
\* vertical and horizontal edges included.  On such a line the rounding of
\* the slope decides, and the two orders of an edge can disagree.
C17_OrderOffTheEdgeLines ==
    (geo.mode = "triangle" /\ geo.done /\
     ~OnEdgeLine(geo.p, geo.v1, geo.v2, geo.v3)) => SameInEveryOrder

\* a point inside a clockwise triangle with a slanted edge of slope 1/3 has
\* been tested and found inside
C17_Witness ==
    /\ geo.mode = "triangle" /\ geo.done
    /\ geo.v1 = <<-5, -5>> /\ geo.v2 = <<-5, 10>> /\ geo.v3 = <<10, 0>>
    /\ geo.p = <<0, 1>>
    /\ geo.out

====
